---- MODULE Spec2Model ----
(***************************************************************************)
(* Model of the U-Boot game core: the GameDisplay execute loop, the Level  *)
(* simulation (movement, hits, pruning, level end, spawning, bomb          *)
(* economics), the play loop of Game with its save file, and the methods   *)
(* of GameDisplay called directly on one screen.                           *)
(*                                                                         *)
(* Pixel sizes, speeds and counts of the settings tables are scaled down   *)
(* to a small integer play field; one clock tick is one unit of time, and  *)
(* speeds are pixels per tick.                                             *)
(***************************************************************************)
EXTENDS Integers, Sequences, FiniteSets, TLC

VARIABLES pc, status, state, display, pending, result, kills, prev, saved,
          quit_seen

vars == <<pc, status, state, display, pending, result, kills, prev, saved,
          quit_seen>>

---------------------------------------------------------------------------
(* Bounds of the model: the levels up to MaxLevel are played, the level    *)
(* after them is constructed and not entered; a frame drains at most       *)
(* MaxEvents events                                                        *)

MaxLevel == 1
MaxEvents == 2

(* settings.py, scaled to the small play field; spawn rates are given as  *)
(* fractions <<numerator, denominator>>, origins in halves of the image   *)
(* size, depths in units of 1/depth_den of the water height               *)

fps == 1
score_frames == 1
level_display_frames == 2 * fps
lives == 2

geometry == [width |-> 2, height |-> 7, sky_num |-> 1, sky_den |-> 5,
             depth_den |-> 6]

animations == [explosion |-> [frame_count |-> 1]]

transient_display_time == 1

objects ==
  [ship |->
     [origin2 |-> <<1, 2>>, size |-> <<2, 1>>,
      movement |-> [start |-> <<"left", "zero">>, speed |-> {2},
                    direction |-> <<1, 0>>, area |-> "sky", repeat |-> TRUE],
      constants |-> [zero |-> {0}]],
   submarine |->
     [origin2 |-> <<0, 0>>, size |-> <<1, 1>>,
      movement |-> [start |-> <<"right", "depth">>, speed |-> {2},
                    direction |-> <<-1, 0>>, area |-> "water",
                    repeat |-> FALSE],
      max_count |-> 2, total_count |-> 2, to_destroy |-> 2,
      constants |-> [depth |-> {4}],
      spawn_rate |-> <<1, 3>>],
   bomb |->
     [origin2 |-> <<1, 0>>, size |-> <<2, 2>>,
      movement |-> [start |-> <<"ship", "ship">>, speed |-> {3},
                    direction |-> <<0, 1>>, area |-> "water",
                    repeat |-> FALSE],
      max_count |-> 2, total_count |-> 3],
   whale |->
     [origin2 |-> <<0, 0>>, size |-> <<1, 1>>,
      movement |-> [start |-> <<"right", "depth">>, speed |-> {2},
                    direction |-> <<-1, 0>>, area |-> "water",
                    repeat |-> FALSE],
      max_count |-> 1, total_count |-> 2, to_destroy |-> 1,
      constants |-> [depth |-> {4}],
      spawn_rate |-> <<1, 1>>]]

hit_info ==
  << [target |-> "submarine", projectile |-> "bomb",
      animation |-> "explosion", score |-> TRUE],
     [target |-> "whale", projectile |-> "bomb",
      animation |-> "explosion", score |-> FALSE] >>

(* per-level overrides of the depth constants *)
level_updates ==
  [n \in {1} |-> [submarine |-> [depth |-> {3}]]]

---------------------------------------------------------------------------
(* Status values of GameDisplay and Level *)

INITIALIZED == "INITIALIZED"
RUNNING == "RUNNING"
TERMINATE == "TERMINATE"
QUIT == "QUIT"
PAUSED == "PAUSED"
LEVEL_CLEARED == "LEVEL_CLEARED"
LEVEL_FAILED == "LEVEL_FAILED"
LEVEL_SAVE == "LEVEL_SAVE"

Status == {INITIALIZED, RUNNING, TERMINATE, QUIT, PAUSED, LEVEL_CLEARED,
           LEVEL_FAILED, LEVEL_SAVE}

running_statuses == {RUNNING, PAUSED}

is_running_until_left(s) ==
  s \in running_statuses \cup {LEVEL_CLEARED, LEVEL_FAILED}

is_running(s) == s \in running_statuses

ready_to_quit_always(d) == TRUE

ready_to_quit(d) == d.final_display_frames = 0

---------------------------------------------------------------------------
(* Geometry of the level: Level.__init__ *)

width == geometry.width
height == geometry.height
waterline == (geometry.sky_num * height) \div geometry.sky_den

areas ==
  [screen |-> [x |-> 0, y |-> 0, w |-> width, h |-> height],
   water  |-> [x |-> 0, y |-> waterline, w |-> width, h |-> height - waterline],
   sky    |-> [x |-> 0, y |-> 0, w |-> width, h |-> waterline]]

(* pygame.Rect.colliderect: the rectangles share at least one pixel *)
colliderect(a, b) ==
  /\ a.x < b.x + b.w
  /\ b.x < a.x + a.w
  /\ a.y < b.y + b.h
  /\ b.y < a.y + a.h

---------------------------------------------------------------------------
(* Entities: MovingObject, Animation, TransientDisplay *)

NoFrame == -1

image_size(otype) == objects[otype].size

(* MovingObject.__init__: disp = -(image size * origin) *)
disp(otype) ==
  << -((image_size(otype)[1] * objects[otype].origin2[1]) \div 2),
     -((image_size(otype)[2] * objects[otype].origin2[2]) \div 2) >>

get_bounding_box(e) ==
  [x |-> e.pos[1] + disp(e.otype)[1], y |-> e.pos[2] + disp(e.otype)[2],
   w |-> image_size(e.otype)[1], h |-> image_size(e.otype)[2]]

inside(e) == colliderect(areas[e.region], get_bounding_box(e))

(* MovingObject.update without the test of inside_before: an object that  *)
(* is outside its movement region after the move ends its movement        *)
MovingObject_update_outside(e, time) ==
  IF e.active
  THEN LET moved == [e EXCEPT !.pos = << @[1] + e.velocity[1] * time,
                                         @[2] + e.velocity[2] * time >>]
       IN  IF ~inside(moved)
           THEN IF e.repeat
                THEN [moved EXCEPT !.pos = e.start]
                ELSE [moved EXCEPT !.active = FALSE]
           ELSE moved
  ELSE e

(* MovingObject.update without the repeat: every object that leaves its   *)
(* movement region is deactivated                                         *)
MovingObject_update_once(e, time) ==
  IF e.active
  THEN LET inside_before == inside(e)
           moved == [e EXCEPT !.pos = << @[1] + e.velocity[1] * time,
                                         @[2] + e.velocity[2] * time >>]
       IN  IF inside_before /\ ~inside(moved)
           THEN [moved EXCEPT !.active = FALSE]
           ELSE moved
  ELSE e

MovingObject_update(e, time) ==
  IF e.active
  THEN LET inside_before == inside(e)
           moved == [e EXCEPT !.pos = << @[1] + e.velocity[1] * time,
                                         @[2] + e.velocity[2] * time >>]
       IN  IF inside_before /\ ~inside(moved)
           THEN IF e.repeat
                THEN [moved EXCEPT !.pos = e.start]
                ELSE [moved EXCEPT !.active = FALSE]
           ELSE moved
  ELSE e

Animation_new(animation_type) ==
  [kind |-> "animation", atype |-> animation_type, time |-> 0,
   current_frame |-> 0]

Animation_is_active(a) == a.current_frame # NoFrame

Animation_update(a, time) ==
  IF Animation_is_active(a)
  THEN LET t == a.time + time
           frame == t
       IN  IF frame >= animations[a.atype].frame_count
           THEN [a EXCEPT !.time = t, !.current_frame = NoFrame]
           ELSE [a EXCEPT !.time = t, !.current_frame = frame]
  ELSE a

TransientDisplay_new(time) == [kind |-> "transient", time_left |-> time]

TransientDisplay_is_active(t) == t.time_left > 0

TransientDisplay_update(t, time) == [t EXCEPT !.time_left = @ - time]

is_active(o) ==
  IF o.kind = "moving" THEN o.active
  ELSE IF o.kind = "animation" THEN Animation_is_active(o)
  ELSE TransientDisplay_is_active(o)

update(o, time) ==
  IF o.kind = "moving" THEN MovingObject_update(o, time)
  ELSE IF o.kind = "animation" THEN Animation_update(o, time)
  ELSE TransientDisplay_update(o, time)

---------------------------------------------------------------------------
(* Level: creation of moving objects *)

y_from_depth(depth) ==
  (depth * (height - waterline)) \div geometry.depth_den + waterline

(* Level.__create_moving_object; depth and speed are the values drawn by  *)
(* resources.get_value, id is the serial number of the object in its type *)
create_moving_object(st, object_type, id, depth, speed) ==
  LET data == st.object_settings[object_type]
      movement == data.movement
      w == image_size(object_type)[1]
      o2 == data.origin2[1]
      start_x ==
        IF movement.start[1] = "left" THEN 0
        ELSE IF movement.start[1] = "right" THEN width
        ELSE st.objects["ship"].list[1].pos[1]
      start_adjustment ==
        IF movement.start[1] = "left" THEN ((o2 - 2) * w) \div 2
        ELSE IF movement.start[1] = "right" THEN (o2 * w) \div 2
        ELSE 0
      start_depth == IF movement.start[2] = "ship" THEN 0 ELSE depth
      start == << start_x + start_adjustment, y_from_depth(start_depth) >>
  IN  [kind |-> "moving", id |-> id, otype |-> object_type,
       pos |-> start, start |-> start,
       velocity |-> << speed * movement.direction[1],
                       speed * movement.direction[2] >>,
       region |-> movement.area, repeat |-> movement.repeat,
       active |-> TRUE]

---------------------------------------------------------------------------
(* Level: bomb economics *)

RECURSIVE SumSquares(_, _)
SumSquares(n, count) ==
  IF count <= 0 THEN 0
  ELSE (n + count - 1) * (n + count - 1) + SumSquares(n, count - 1)

get_bomb_cost_after_drop(st, count) ==
  SumSquares(Len(st.objects["bomb"].list) + 1, count)

(* Level.__get_bomb_cost *)
get_bomb_cost(st, count) == SumSquares(Len(st.objects["bomb"].list), count)

RECURSIVE available_loop(_, _)
available_loop(st, available_bombs) ==
  IF get_bomb_cost(st, available_bombs) > st.score
  THEN available_loop(st, available_bombs - 1)
  ELSE available_bombs

Min(a, b) == IF a < b THEN a ELSE b

get_available_bombs_unpriced(st) ==
  LET bomb_info == st.objects["bomb"]
      max_bombs == Min(bomb_info.max_count, bomb_info.remaining)
      existing_bombs == Len(bomb_info.list)
  IN  max_bombs - existing_bombs

get_available_bombs(st) ==
  LET bomb_info == st.objects["bomb"]
      max_bombs == Min(bomb_info.max_count, bomb_info.remaining)
      existing_bombs == Len(bomb_info.list)
  IN  available_loop(st, max_bombs - existing_bombs)

new_bomb_unbudgeted(st) ==
  LET id == st.object_settings["bomb"].total_count
              - st.objects["bomb"].remaining + 1
      newbomb == create_moving_object(st, "bomb", id, 0,
                   CHOOSE s \in st.object_settings["bomb"].movement.speed
                     : TRUE)
  IN  [st EXCEPT !.objects["bomb"].list = Append(@, newbomb)]

(* Level.__drop_bomb: the new bomb joins the pool and uses up one unit of *)
(* the budget                                                              *)
new_bomb(st) ==
  LET id == st.object_settings["bomb"].total_count
              - st.objects["bomb"].remaining + 1
      newbomb == create_moving_object(st, "bomb", id, 0,
                   CHOOSE s \in st.object_settings["bomb"].movement.speed
                     : TRUE)
  IN  [st EXCEPT !.objects["bomb"].list = Append(@, newbomb),
                 !.objects["bomb"].remaining = @ - 1]

drop_bomb_charging_after(st) ==
  IF get_available_bombs(st) > 0
  THEN LET ship_pos == st.objects["ship"].list[1].pos
       IN  IF ship_pos[1] > 0 /\ ship_pos[1] < areas["screen"].w
           THEN LET added == new_bomb(st)
                    bomb_cost == get_bomb_cost(added, 1)
                IN  [added EXCEPT
                       !.score = @ - bomb_cost,
                       !.objects["transients"].list =
                          Append(@, TransientDisplay_new(transient_display_time))]
           ELSE st
  ELSE st

drop_bomb_anywhere(st) ==
  IF get_available_bombs(st) > 0
  THEN LET bomb_cost == get_bomb_cost(st, 1)
           tr == IF bomb_cost # 0
                 THEN Append(st.objects["transients"].list,
                        TransientDisplay_new(transient_display_time))
                 ELSE st.objects["transients"].list
           charged == [st EXCEPT !.score = @ - bomb_cost,
                           !.objects["transients"].list = tr]
       IN  new_bomb(charged)
  ELSE st

(* Level.__drop_bomb in status RUNNING: the state after the key press *)
drop_bomb(st) ==
  IF get_available_bombs(st) > 0
  THEN LET ship == st.objects["ship"].list[1]
           ship_pos == ship.pos
       IN  IF ship_pos[1] > 0 /\ ship_pos[1] < areas["screen"].w
           THEN LET bomb_cost == get_bomb_cost(st, 1)
                    tr == IF bomb_cost # 0
                          THEN Append(st.objects["transients"].list,
                                 TransientDisplay_new(transient_display_time))
                          ELSE st.objects["transients"].list
                    charged == [st EXCEPT !.score = @ - bomb_cost,
                                    !.objects["transients"].list = tr]
                IN  new_bomb(charged)
           ELSE st
  ELSE st

---------------------------------------------------------------------------
(* Level: spawning *)

(* the outcomes of the random draws made for one spawnable type: whether  *)
(* randomly_true succeeds and the depth and speed drawn by get_value      *)
(* resources.randomly_true(rate / fps): random.uniform(0, 1) < probability *)
(* can come out either way for a probability strictly between 0 and 1     *)
randomly_true(rate) ==
  IF rate[1] >= rate[2] * fps THEN {TRUE}
  ELSE IF rate[1] <= 0 THEN {FALSE}
  ELSE BOOLEAN

SpawnOptions(st, obj_type) ==
  {[roll |-> r, depth |-> d, speed |-> s] :
     r \in randomly_true(st.objects[obj_type].spawn_rate),
     d \in st.object_settings[obj_type].constants[
             st.object_settings[obj_type].movement.start[2]],
     s \in st.object_settings[obj_type].movement.speed}

SpawnChoices(st) ==
  {f \in [st.spawnables ->
            UNION {SpawnOptions(st, t) : t \in st.spawnables}] :
     \A t \in st.spawnables : f[t] \in SpawnOptions(st, t)}

spawn_one_unbudgeted(st, obj_type, draw) ==
  LET obj_data == st.objects[obj_type]
      limited == "remaining" \in DOMAIN obj_data
      id == IF limited
            THEN st.object_settings[obj_type].total_count
                   - obj_data.remaining + 1
            ELSE 0
  IN  IF Len(obj_data.list) < obj_data.max_count /\ draw.roll
      THEN LET newobj == create_moving_object(st, obj_type, id,
                                              draw.depth, draw.speed)
               added == [st EXCEPT !.objects[obj_type].list =
                                      Append(@, newobj)]
           IN  IF limited
               THEN [added EXCEPT !.objects[obj_type].remaining = @ - 1]
               ELSE added
      ELSE st

(* Level.__spawn_objects without max_count: a type spawns as long as its   *)
(* budget lasts, however many of its objects exist                        *)
spawn_one_uncapped(st, obj_type, draw) ==
  LET obj_data == st.objects[obj_type]
      limited == "remaining" \in DOMAIN obj_data
      id == IF limited
            THEN st.object_settings[obj_type].total_count
                   - obj_data.remaining + 1
            ELSE 0
  IN  IF (limited /\ obj_data.remaining > 0) /\ draw.roll
      THEN LET newobj == create_moving_object(st, obj_type, id,
                                              draw.depth, draw.speed)
               added == [st EXCEPT !.objects[obj_type].list =
                                      Append(@, newobj)]
           IN  [added EXCEPT !.objects[obj_type].remaining = @ - 1]
      ELSE st

(* Level.__spawn_objects: the body of the loop for one spawnable type *)
spawn_one(st, obj_type, draw) ==
  LET obj_data == st.objects[obj_type]
      limited == "remaining" \in DOMAIN obj_data
      max_objects == IF limited /\ obj_data.remaining < obj_data.max_count
                     THEN obj_data.remaining
                     ELSE obj_data.max_count
      existing_objects == Len(obj_data.list)
      id == IF limited
            THEN st.object_settings[obj_type].total_count
                   - obj_data.remaining + 1
            ELSE 0
  IN  IF existing_objects < max_objects /\ draw.roll
      THEN LET newobj == create_moving_object(st, obj_type, id,
                                              draw.depth, draw.speed)
               added == [st EXCEPT !.objects[obj_type].list =
                                      Append(@, newobj)]
           IN  IF limited
               THEN [added EXCEPT !.objects[obj_type].remaining = @ - 1]
               ELSE added
      ELSE st

RECURSIVE spawn_loop(_, _, _)
spawn_loop(st, todo, draws) ==
  IF todo = {} THEN st
  ELSE LET obj_type == CHOOSE t \in todo : TRUE
       IN  spawn_loop(spawn_one(st, obj_type, draws[obj_type]),
                      todo \ {obj_type}, draws)

spawn_objects(st, draws) == spawn_loop(st, st.spawnables, draws)

---------------------------------------------------------------------------
(* Level: hits *)

(* int(): truncation toward zero of num/den, den > 0 *)
int(num, den) == IF num >= 0 THEN num \div den ELSE -((-num) \div den)

(* the score factor of Level.__handle_hits, scaled with the play field *)
ScoreFactor == 4

hit_delta_truncated(y) == int(2 * ScoreFactor * (y - waterline), 2 * height)

hit_delta_penalty(y) ==
  0 - int(2 * ScoreFactor * (y - waterline) + height, 2 * height)

(* int((y - waterline) / height * ScoreFactor + 0.5) *)
hit_delta(y) ==
  int(2 * ScoreFactor * (y - waterline) + height, 2 * height)

(* the body of the innermost loop of Level.__handle_hits scoring every     *)
(* overlap, whether or not the target is still active                     *)
hit_step_scoring_inactive(acc, info, i, j) ==
  LET st == acc.st
      target == st.objects[info.target].list[i]
      projectile == st.objects[info.projectile].list[j]
  IN  IF colliderect(get_bounding_box(target), get_bounding_box(projectile))
      THEN LET scored == info.score
               delta == hit_delta(target.pos[2])
               s1 == IF scored
                     THEN [st EXCEPT
                             !.score = @ + delta,
                             !.objects["transients"].list = Append(@,
                                TransientDisplay_new(transient_display_time))]
                     ELSE st
               s2 == [s1 EXCEPT
                        !.objects[info.animation].list =
                           Append(@, Animation_new(info.animation)),
                        !.objects[info.target].list[i].active = FALSE]
               s3 == [s2 EXCEPT
                        !.objects[info.projectile].list[j].active = FALSE]
               s4 == IF s3.objects[info.target].to_destroy > 0
                     THEN [s3 EXCEPT
                             !.objects[info.target].to_destroy = @ - 1]
                     ELSE s3
           IN  [st |-> s4,
                log |-> Append(acc.log,
                   [target |-> info.target, tid |-> target.id,
                    projectile |-> info.projectile, pid |-> projectile.id,
                    tactive |-> target.active, pactive |-> projectile.active,
                    eligible |-> info.score, y |-> target.pos[2],
                    added |-> s1.score - st.score])]
      ELSE acc

(* the body of the innermost loop of Level.__handle_hits for target i and *)
(* projectile j of one hit_info entry; acc.log records the overlaps found *)
hit_step(acc, info, i, j) ==
  LET st == acc.st
      target == st.objects[info.target].list[i]
      projectile == st.objects[info.projectile].list[j]
  IN  IF colliderect(get_bounding_box(target), get_bounding_box(projectile))
      THEN LET scored == target.active /\ info.score
               delta == hit_delta(target.pos[2])
               s1 == IF scored
                     THEN [st EXCEPT
                             !.score = @ + delta,
                             !.objects["transients"].list = Append(@,
                                TransientDisplay_new(transient_display_time))]
                     ELSE st
               s2 == [s1 EXCEPT
                        !.objects[info.animation].list =
                           Append(@, Animation_new(info.animation)),
                        !.objects[info.target].list[i].active = FALSE]
               s3 == [s2 EXCEPT
                        !.objects[info.projectile].list[j].active = FALSE]
               s4 == IF s3.objects[info.target].to_destroy > 0
                     THEN [s3 EXCEPT
                             !.objects[info.target].to_destroy = @ - 1]
                     ELSE s3
           IN  [st |-> s4,
                log |-> Append(acc.log,
                   [target |-> info.target, tid |-> target.id,
                    projectile |-> info.projectile, pid |-> projectile.id,
                    tactive |-> target.active, pactive |-> projectile.active,
                    eligible |-> info.score, y |-> target.pos[2],
                    added |-> s1.score - st.score])]
      ELSE acc

RECURSIVE hits_pair(_, _, _)
hits_pair(acc, info, k) ==
  LET nt == Len(acc.st.objects[info.target].list)
      np == Len(acc.st.objects[info.projectile].list)
  IN  IF k >= nt * np THEN acc
      ELSE hits_pair(hit_step(acc, info, (k \div np) + 1, (k % np) + 1),
                     info, k + 1)

RECURSIVE hits_loop(_, _)
hits_loop(acc, p) ==
  IF p > Len(hit_info) THEN acc
  ELSE hits_loop(hits_pair(acc, hit_info[p], 0), p + 1)

handle_hits(st) == hits_loop([st |-> st, log |-> << >>], 1)

---------------------------------------------------------------------------
(* Level: initial state, construction, saved state *)

EmptyDict == << >>

get(dict, key, default) == IF key \in DOMAIN dict THEN dict[key] ELSE default

(* resources.recursive_update on the object settings: the overrides of a  *)
(* level replace entries of the "constants" of the object types they name *)
recursive_update(dictionary, updates) ==
  [t \in DOMAIN dictionary |->
     IF t \in DOMAIN updates
     THEN [dictionary[t] EXCEPT !.constants =
             [c \in DOMAIN @ |->
                IF c \in DOMAIN updates[t] THEN updates[t][c] ELSE @[c]]]
     ELSE dictionary[t]]

initial_state_free_repeat(old_state, repeat) ==
  LET level_number == get(old_state, "level_number", 0)
                        + (IF repeat THEN 0 ELSE 1)
      lives_left == get(old_state, "lives", lives)
      object_settings ==
        IF level_number \in DOMAIN level_updates
        THEN recursive_update(objects, level_updates[level_number])
        ELSE objects
  IN  [level_number |-> level_number,
       object_settings |-> object_settings,
       objects |-> EmptyDict,
       spawnables |-> {},
       score |-> get(old_state, "score", 0),
       lives |-> lives_left]

initial_state_costing_life(old_state, repeat) ==
  LET level_number == get(old_state, "level_number", 0)
                        + (IF repeat THEN 0 ELSE 1)
      lives_left == get(old_state, "lives", lives) - 1
      object_settings ==
        IF level_number \in DOMAIN level_updates
        THEN recursive_update(objects, level_updates[level_number])
        ELSE objects
  IN  [level_number |-> level_number,
       object_settings |-> object_settings,
       objects |-> EmptyDict,
       spawnables |-> {},
       score |-> get(old_state, "score", 0),
       lives |-> lives_left]

initial_state_keeping_objects(old_state, repeat) ==
  LET level_number == get(old_state, "level_number", 0)
                        + (IF repeat THEN 0 ELSE 1)
      lives_left == get(old_state, "lives", lives)
                        - (IF repeat THEN 1 ELSE 0)
      object_settings ==
        IF level_number \in DOMAIN level_updates
        THEN recursive_update(objects, level_updates[level_number])
        ELSE objects
  IN  [level_number |-> level_number,
       object_settings |-> object_settings,
       objects |-> get(old_state, "objects", EmptyDict),
       spawnables |-> get(old_state, "spawnables", {}),
       score |-> get(old_state, "score", 0),
       lives |-> lives_left]

(* initial_state without the deepcopy of the global table: the overrides   *)
(* applied for the previous level are still in the table that is updated   *)
initial_state_carrying_over(old_state, repeat) ==
  LET level_number == get(old_state, "level_number", 0)
                        + (IF repeat THEN 0 ELSE 1)
      lives_left == get(old_state, "lives", lives)
                        - (IF repeat THEN 1 ELSE 0)
      table == get(old_state, "object_settings", objects)
      object_settings ==
        IF level_number \in DOMAIN level_updates
        THEN recursive_update(table, level_updates[level_number])
        ELSE table
  IN  [level_number |-> level_number,
       object_settings |-> object_settings,
       objects |-> EmptyDict,
       spawnables |-> {},
       score |-> get(old_state, "score", 0),
       lives |-> lives_left]

initial_state(old_state, repeat) ==
  LET level_number == get(old_state, "level_number", 0)
                        + (IF repeat THEN 0 ELSE 1)
      lives_left == get(old_state, "lives", lives)
                        - (IF repeat THEN 1 ELSE 0)
      object_settings ==
        IF level_number \in DOMAIN level_updates
        THEN recursive_update(objects, level_updates[level_number])
        ELSE objects
  IN  [level_number |-> level_number,
       object_settings |-> object_settings,
       objects |-> EmptyDict,
       spawnables |-> {},
       score |-> get(old_state, "score", 0),
       lives |-> lives_left]

(* the object_info record of Level.__init__ for one object type *)
object_info(obj) ==
  [k \in {"list"}
         \cup (IF "max_count" \in DOMAIN obj THEN {"max_count"} ELSE {})
         \cup (IF "spawn_rate" \in DOMAIN obj THEN {"spawn_rate"} ELSE {})
         \cup (IF "total_count" \in DOMAIN obj THEN {"remaining"} ELSE {})
         \cup (IF "to_destroy" \in DOMAIN obj THEN {"to_destroy"} ELSE {})
     |-> IF k = "list" THEN << >>
         ELSE IF k = "remaining" THEN obj.total_count
         ELSE obj[k]]

(* Level.__init__: the level state and the display data of the new level *)
Level_init(old_state) ==
  LET fresh == DOMAIN old_state.objects = {}
      infos == [t \in DOMAIN old_state.object_settings |->
                  object_info(old_state.object_settings[t])]
      with_infos == [old_state EXCEPT
                       !.objects = infos,
                       !.spawnables =
                          {t \in DOMAIN old_state.object_settings :
                             "spawn_rate" \in
                                DOMAIN old_state.object_settings[t]}]
      ship == create_moving_object(with_infos, "ship", 0,
                CHOOSE d \in with_infos.object_settings["ship"].constants[
                               "zero"] : TRUE,
                CHOOSE s \in with_infos.object_settings["ship"].movement.speed
                             : TRUE)
      pools == [t \in DOMAIN infos \cup DOMAIN animations |->
                  IF t = "ship" THEN [list |-> << ship >>]
                  ELSE IF t \in DOMAIN animations THEN [list |-> << >>]
                  ELSE infos[t]]
      built == IF fresh THEN [with_infos EXCEPT !.objects = pools]
               ELSE old_state
      st == [built EXCEPT !.objects =
               [t \in DOMAIN built.objects \cup {"transients"} |->
                  IF t = "transients" THEN [list |-> << >>]
                  ELSE built.objects[t]]]
  IN  [state |-> st,
       display |-> [score |-> st.score,
                    score_frames |-> score_frames,
                    score_countdown |-> score_frames,
                    final_display_frames |-> level_display_frames]]

get_state_without_animations(st) ==
  [st EXCEPT !.objects =
     [t \in DOMAIN st.objects \ ({"transients"} \cup DOMAIN animations) |->
        st.objects[t]]]

(* Level.get_state *)
get_state(st) ==
  [st EXCEPT !.objects =
     [t \in DOMAIN st.objects \ {"transients"} |-> st.objects[t]]]

---------------------------------------------------------------------------
(* Level: the per-frame update *)

update_displayed_score(d, score) ==
  IF d.score # score
  THEN IF d.score_countdown = 0
       THEN [d EXCEPT !.score_countdown = d.score_frames,
                      !.score = IF d.score < score THEN @ + 1 ELSE @ - 1]
       ELSE [d EXCEPT !.score_countdown = @ - 1]
  ELSE d

(* for obj in obj_data["list"]: obj.update(time) *)
RECURSIVE update_list(_, _)
update_list(list, time) ==
  IF list = << >> THEN << >>
  ELSE << update(Head(list), time) >> \o update_list(Tail(list), time)

(* for obj_data in the pools of the given types: update every object *)
RECURSIVE update_all(_, _, _)
update_all(st, types, time) ==
  IF types = {} THEN st
  ELSE LET t == CHOOSE x \in types : TRUE
       IN  update_all([st EXCEPT !.objects[t].list = update_list(@, time)],
                      types \ {t}, time)

(* for thing in the given pools: keep the active objects of its list *)
RECURSIVE prune_types(_, _)
prune_types(st, types) ==
  IF types = {} THEN st
  ELSE LET t == CHOOSE x \in types : TRUE
       IN  prune_types([st EXCEPT !.objects[t].list =
                                    SelectSeq(@, is_active)],
                       types \ {t})

prune(st) == prune_types(st, DOMAIN st.objects)

objects_remaining_in_pool(st, obj_type) == Len(st.objects[obj_type].list)

objects_remaining(st, obj_type) ==
  get(st.objects[obj_type], "remaining", 1) + Len(st.objects[obj_type].list)

(* Level.update_state after the test for PAUSED: the status, level state  *)
(* and display data after the call, and the overlaps found by             *)
(* __handle_hits during it                                                *)
update_state_unpaused(s, st, d, draws, time) ==
  LET d1 == update_displayed_score(d, st.score)
  IN  IF ~is_running(s)
      THEN [status |-> s,
            state |-> update_all(st, DOMAIN animations, time),
            display |-> IF d1.final_display_frames > 0
                        THEN [d1 EXCEPT !.final_display_frames = @ - 1]
                        ELSE d1,
            log |-> << >>]
      ELSE
        LET moved == update_all(st, DOMAIN st.objects, time)
            hits == handle_hits(moved)
            pruned == prune(hits.st)
            submarines_remaining == objects_remaining(pruned, "submarine")
            submarines_to_destroy == pruned.objects["submarine"].to_destroy
            s1 == IF submarines_remaining = 0
                  THEN IF submarines_to_destroy > 0
                       THEN LEVEL_FAILED
                       ELSE LEVEL_CLEARED
                  ELSE s
        IN  [status |-> s1,
             state |-> spawn_objects(pruned, draws),
             display |-> d1,
             log |-> hits.log]

update_state_ignoring_pause(s, st, d, draws, time) ==
  update_state_unpaused(s, st, d, draws, time)

(* Level.update_state *)
update_state(s, st, d, draws, time) ==
  IF s = PAUSED
  THEN [status |-> s, state |-> st, display |-> d, log |-> << >>]
  ELSE update_state_unpaused(s, st, d, draws, time)

---------------------------------------------------------------------------
(* Level: key bindings and GameDisplay.handle_event *)

Events == {"QUIT", "K_p", "K_s", "K_q", "K_DOWN", "K_x"}

key_bindings == {"K_p", "K_s", "K_q", "K_DOWN"}

pause_game_one_way(s) == PAUSED

(* Level.__pause_game *)
pause_game(s) == IF s = PAUSED THEN RUNNING ELSE PAUSED

(* GameDisplay.handle_event with the key bindings of Level *)
handle_event(s, st, d, event) ==
  IF event = "QUIT"
  THEN [status |-> TERMINATE, state |-> st, display |-> d, ret |-> TRUE]
  ELSE IF event \in key_bindings
  THEN IF event = "K_p"
       THEN [status |-> pause_game(s), state |-> st, display |-> d,
             ret |-> TRUE]
       ELSE IF event = "K_s"
       THEN [status |-> LEVEL_SAVE, state |-> st,
             display |-> [d EXCEPT !.final_display_frames = 0],
             ret |-> TRUE]
       ELSE IF event = "K_q"
       THEN [status |-> QUIT, state |-> st,
             display |-> [d EXCEPT !.final_display_frames = 0],
             ret |-> TRUE]
       ELSE [status |-> s,
             state |-> IF s # RUNNING THEN st ELSE drop_bomb(st),
             display |-> d, ret |-> TRUE]
  ELSE [status |-> s, state |-> st, display |-> d, ret |-> FALSE]

---------------------------------------------------------------------------
(* The state machine: Game.run, Game.__play and GameDisplay.execute       *)
(*                                                                         *)
(* pc is the position of the control flow. pending is the number of       *)
(* drained events of the frame that are not yet handled; the event at the *)
(* head of the queue is revealed when it is handled. kills and prev       *)
(* record what happened: the targets destroyed by projectile hits in the  *)
(* level, and the arguments of the last call of initial_state. saved is   *)
(* the save file, with the kills of the level it holds; quit_seen tells   *)
(* whether a QUIT event has been handled since execute was entered.       *)

NoDisplay == [score |-> 0, score_frames |-> score_frames,
              score_countdown |-> score_frames,
              final_display_frames |-> level_display_frames]

NoKills == [t \in {"submarine", "whale"} |-> 0]

NoResult == "none"

NoPrev == [called |-> FALSE, old |-> EmptyDict, repeat |-> FALSE]

(* the save file without the key "game" *)
NoSave == [present |-> FALSE, game |-> EmptyDict, kills |-> NoKills]

Init ==
  /\ pc = "menu"
  /\ status = INITIALIZED
  /\ state = EmptyDict
  /\ display = NoDisplay
  /\ pending = 0
  /\ result = NoResult
  /\ kills = NoKills
  /\ prev = NoPrev
  /\ saved = NoSave
  /\ quit_seen = FALSE

(* Game.run, action "play": a new game starts from initial_state({}) *)
RunPlay ==
  /\ pc = "menu"
  /\ state' = initial_state(EmptyDict, FALSE)
  /\ prev' = [called |-> TRUE, old |-> EmptyDict, repeat |-> FALSE]
  /\ pc' = "construct"
  /\ saved' = NoSave
  /\ UNCHANGED <<status, display, pending, result, kills, quit_seen>>

(* Game.run, action "resume": the game stored in the save file is played; *)
(* without one the menu is shown again with a message. The model follows  *)
(* a save file through one resume and drops it when it is loaded or a new *)
(* game starts: a file that is kept only allows the same state to be      *)
(* resumed again, which adds no level state.                              *)
RunResume ==
  /\ pc = "menu"
  /\ IF saved.present
     THEN /\ state' = saved.game
          /\ kills' = saved.kills
          /\ pc' = "construct"
     ELSE UNCHANGED <<state, kills, pc>>
  /\ saved' = NoSave
  /\ UNCHANGED <<status, display, pending, result, prev, quit_seen>>

(* Game.run, action "quit": the application ends *)
RunQuit ==
  /\ pc = "menu"
  /\ pc' = "done"
  /\ UNCHANGED <<status, state, display, pending, result, kills, prev, saved,
               quit_seen>>

(* Level(...): construction of the level from the state passed in *)
LevelInit ==
  /\ pc = "construct"
  /\ LET l == Level_init(state)
     IN  /\ state' = l.state
         /\ display' = l.display
         /\ kills' = IF DOMAIN state.objects = {} THEN NoKills ELSE kills
  /\ status' = INITIALIZED
  /\ pc' = "execute"
  /\ UNCHANGED <<pending, result, prev, saved, quit_seen>>

(* GameDisplay.execute: entry *)
ExecuteStart ==
  /\ pc = "execute"
  /\ state.level_number <= MaxLevel
  /\ status' = RUNNING
  /\ result' = NoResult
  /\ prev' = NoPrev
  /\ quit_seen' = FALSE
  /\ pc' = "loop"
  /\ UNCHANGED <<state, display, pending, kills, saved>>

(* GameDisplay.execute: the test of the while loop and the return *)
LoopTest ==
  /\ pc = "loop"
  /\ IF is_running(status) \/ ~ready_to_quit(display)
     THEN /\ pc' = "draw"
          /\ result' = result
     ELSE /\ pc' = "returned"
          /\ result' = status
  /\ UNCHANGED <<status, state, display, pending, kills, prev, saved,
               quit_seen>>

(* self.draw() *)
Draw ==
  /\ pc = "draw"
  /\ pc' = "tick"
  /\ UNCHANGED <<status, state, display, pending, result, kills, prev, saved,
               quit_seen>>

(* self.game.clock.tick(self.game.fps) *)
Tick ==
  /\ pc = "tick"
  /\ pc' = "get"
  /\ UNCHANGED <<status, state, display, pending, result, kills, prev, saved,
               quit_seen>>

(* pygame.event.get(): the events pending in this frame are drained *)
GetEvents ==
  /\ pc = "get"
  /\ \E n \in 0..MaxEvents : pending' = n
  /\ pc' = "events"
  /\ UNCHANGED <<status, state, display, result, kills, prev, saved,
               quit_seen>>

(* one pass of the for loop over the drained events *)
HandleEvent ==
  /\ pc = "events"
  /\ pending > 0
  /\ \E event \in Events :
       LET r == handle_event(status, state, display, event)
       IN  /\ status' = r.status
           /\ state' = r.state
           /\ display' = r.display
           /\ quit_seen' = (quit_seen \/ event = "QUIT")
  /\ pending' = pending - 1
  /\ UNCHANGED <<pc, result, kills, prev, saved>>

KillsIn(log, t) ==
  Cardinality({i \in 1..Len(log) : log[i].target = t /\ log[i].tactive})

(* the call of update_state that ends the iteration *)
UpdateState ==
  /\ pc = "events"
  /\ pending = 0
  /\ \E draws \in SpawnChoices(state) :
       LET r == update_state(status, state, display, draws, 1)
       IN  /\ status' = r.status
           /\ state' = r.state
           /\ display' = r.display
           /\ kills' = [t \in DOMAIN kills |-> kills[t] + KillsIn(r.log, t)]
  /\ pc' = "loop"
  /\ UNCHANGED <<pending, result, prev, saved, quit_seen>>

play_next_with_last_life(res, end_state) ==
  IF res = LEVEL_CLEARED THEN "next"
  ELSE IF res = LEVEL_FAILED /\ end_state.lives > 0 THEN "repeat"
  ELSE "break"

(* Game.__play: what follows the result of a level *)
play_next(res, end_state) ==
  IF res = LEVEL_CLEARED THEN "next"
  ELSE IF res = LEVEL_FAILED /\ end_state.lives > 1 THEN "repeat"
  ELSE "break"

(* Game.__play: the body of the while loop after execute has returned *)
PlayDecide ==
  /\ pc = "returned"
  /\ LET end_state == get_state(state)
         next == play_next(result, end_state)
     IN  IF next = "break"
         THEN /\ state' = end_state
              /\ prev' = NoPrev
              /\ pc' = "played"
         ELSE /\ state' = initial_state(end_state, next = "repeat")
              /\ prev' = [called |-> TRUE, old |-> end_state,
                           repeat |-> (next = "repeat")]
              /\ pc' = "construct"
  /\ UNCHANGED <<status, display, pending, result, kills, saved, quit_seen>>

(* Game.run after __play, writing the save file also for a game that was *)
(* ended with the quit key                                                 *)
RunAfterPlay_saving_on_quit ==
  /\ pc = "played"
  /\ saved' = IF result \in {LEVEL_SAVE, QUIT}
              THEN [present |-> TRUE, game |-> state, kills |-> kills]
              ELSE saved
  /\ quit_seen' = FALSE
  /\ pc' = IF result = TERMINATE THEN "done" ELSE "menu"
  /\ state' = EmptyDict
  /\ display' = NoDisplay
  /\ status' = INITIALIZED
  /\ result' = NoResult
  /\ kills' = NoKills
  /\ UNCHANGED <<pending, prev>>

(* Game.run: after __play a game that ended with LEVEL_SAVE is written to *)
(* the save file; the game quits on TERMINATE and returns to the menu     *)
(* otherwise                                                              *)
RunAfterPlay ==
  /\ pc = "played"
  /\ saved' = IF result = LEVEL_SAVE
              THEN [present |-> TRUE, game |-> state, kills |-> kills]
              ELSE saved
  /\ quit_seen' = FALSE
  /\ pc' = IF result = TERMINATE THEN "done" ELSE "menu"
  /\ state' = EmptyDict
  /\ display' = NoDisplay
  /\ status' = INITIALIZED
  /\ result' = NoResult
  /\ kills' = NoKills
  /\ UNCHANGED <<pending, prev>>

Next ==
  \/ RunPlay
  \/ RunResume
  \/ RunQuit
  \/ LevelInit
  \/ ExecuteStart
  \/ LoopTest
  \/ Draw
  \/ Tick
  \/ GetEvents
  \/ HandleEvent
  \/ UpdateState
  \/ PlayDecide
  \/ RunAfterPlay

Spec == Init /\ [][Next]_vars

TypeOK ==
  /\ status \in Status
  /\ pc \in {"menu", "construct", "execute", "loop", "draw", "tick", "get",
             "events", "returned", "played", "done"}

---------------------------------------------------------------------------
(* Helpers of the properties *)

(* the pools of a level state; empty before the level has been built *)
Pools(st) == IF "objects" \in DOMAIN st THEN st.objects ELSE EmptyDict

(* a level exists and its pools have been built *)
InLevel == DOMAIN Pools(state) # {}

(* the control flow is inside GameDisplay.execute *)
InExecute == pc \in {"loop", "draw", "tick", "get", "events"}

Limited(st) == {t \in DOMAIN Pools(st) : "remaining" \in DOMAIN Pools(st)[t]}

Budget(st, t) == Pools(st)[t].remaining + Len(Pools(st)[t].list)

---------------------------------------------------------------------------
(* C1: GameDisplay.execute sets the status to RUNNING and iterates while   *)
(* is_running() or not ready_to_quit(); an iteration is draw, tick, one    *)
(* handle_event per event drained in the frame, whatever the status has    *)
(* become, and then update_state; the loop condition is tested only        *)
(* between iterations and execute returns the status held at the exit.     *)
C1_Step ==
  /\ pc = "execute" => pc' = "loop" /\ status' = RUNNING
  /\ pc = "loop" =>
        /\ status' = status
        /\ IF status \in {RUNNING, PAUSED} \/ display.final_display_frames # 0
           THEN pc' = "draw"
           ELSE pc' = "returned" /\ result' = status
  /\ pc = "draw" => pc' = "tick" /\ status' = status
  /\ pc = "tick" => pc' = "get" /\ status' = status
  /\ pc = "get" => pc' = "events" /\ status' = status
  /\ pc = "events" /\ pending > 0 => pc' = "events" /\ pending' = pending - 1
  /\ pc = "events" /\ pending = 0 => pc' = "loop"
  /\ pc' = "returned" => pc = "loop"
  /\ pc' = "draw" => pc = "loop"

C1_ExecuteLoop == [][C1_Step]_vars

(* a key has ended the level and events of the same frame are still to be *)
(* handled                                                                 *)
C1_Witness == pc = "events" /\ status = QUIT /\ pending > 0

---------------------------------------------------------------------------
(* C2: for every object type with a lifetime total_count, in every level  *)
(* state, remaining >= 0 and remaining plus the number of entities in the *)
(* pool is at most total_count, and no step of the level (update_state,   *)
(* spawn, bomb drop) increases that sum.                                  *)
C2_Inv ==
  \A t \in Limited(state) :
     /\ Pools(state)[t].remaining >= 0
     /\ Budget(state, t) <= objects[t].total_count

C2_Step ==
  (InLevel /\ InLevel') =>
     \A t \in Limited(state) : Budget(state', t) <= Budget(state, t)

C2_PoolBudget == []C2_Inv /\ [][C2_Step]_vars

(* bombs have left the pool for good while another one is in the water *)
C2_Witness ==
  /\ InLevel
  /\ Budget(state, "bomb") < objects["bomb"].total_count
  /\ Len(Pools(state)["bomb"].list) > 0
  /\ Pools(state)["bomb"].remaining = 0

---------------------------------------------------------------------------
(* C3: in every level state get_available_bombs returns a non-negative    *)
(* number a with bomb cost(a) <= score and a <= min(max_count, remaining) *)
(* minus the bombs in the pool, and a is the largest such number.         *)
C3_AvailableBombs ==
  InLevel =>
    LET bomb_info == Pools(state)["bomb"]
        cap == Min(bomb_info.max_count, bomb_info.remaining)
                 - Len(bomb_info.list)
        a == get_available_bombs(state)
    IN  /\ a >= 0
        /\ get_bomb_cost(state, a) <= state.score
        /\ a <= cap
        /\ \A b \in (a + 1)..cap : get_bomb_cost(state, b) > state.score

---------------------------------------------------------------------------
(* C4: every bomb drop, also the second of a frame, changes the score by  *)
(* a delta <= 0 and leaves a score >= 0.                                  *)
BombDropped ==
  /\ pc = "events" /\ pc' = "events"
  /\ Len(Pools(state')["bomb"].list) = Len(Pools(state)["bomb"].list) + 1

C4_Step ==
  BombDropped => state'.score <= state.score /\ state'.score >= 0

C4_BombDropScore == [][C4_Step]_vars

(* two bombs dropped in one frame, the second one at a price *)
C4_Witness ==
  /\ pc = "events" /\ InLevel
  /\ Len(Pools(state)["bomb"].list) = 2
  /\ \A i \in 1..2 : Pools(state)["bomb"].list[i].pos
                        = Pools(state)["bomb"].list[i].start

---------------------------------------------------------------------------
(* C5: when update_state in status RUNNING resolves the hits, every       *)
(* overlap of an active target with an active projectile of a configured  *)
(* pair leaves both out of their pools after the prune of the same call,  *)
(* and a score-eligible overlap adds the integer nearest to               *)
(* (target_y - waterline) / height * ScoreFactor to the score.            *)
RunningUpdate ==
  pc = "events" /\ pending = 0 /\ status = RUNNING /\ pc' = "loop"

Abs(x) == IF x < 0 THEN -x ELSE x

Nearest(y) ==
  CHOOSE r \in -ScoreFactor..ScoreFactor :
    2 * Abs(r * height - ScoreFactor * (y - waterline)) <= height

Ids(st, t) == {Pools(st)[t].list[i].id : i \in 1..Len(Pools(st)[t].list)}

RECURSIVE SumAdded(_, _)
SumAdded(log, n) ==
  IF n = 0 THEN 0
  ELSE SumAdded(log, n - 1)
         + (IF log[n].tactive /\ log[n].eligible
            THEN Nearest(log[n].y) ELSE 0)

C5_Step ==
  RunningUpdate =>
    LET moved == update_all(state, DOMAIN state.objects, 1)
        log == handle_hits(moved).log
    IN  /\ \A n \in 1..Len(log) :
             (log[n].tactive /\ log[n].pactive) =>
                /\ log[n].tid \notin Ids(state', log[n].target)
                /\ log[n].pid \notin Ids(state', log[n].projectile)
                /\ log[n].added = IF log[n].eligible
                                  THEN Nearest(log[n].y) ELSE 0
        /\ state'.score = state.score + SumAdded(log, Len(log))

C5_HitResolution == [][C5_Step]_vars

(* a bomb has just destroyed a submarine for a score *)
C5_Witness ==
  /\ pc = "loop" /\ InLevel
  /\ kills["submarine"] > 0
  /\ Len(Pools(state)["explosion"].list) > 0
  /\ state.score > 0

---------------------------------------------------------------------------
(* C6: in a level, the amount by which to_destroy of a target type has    *)
(* gone down never exceeds the number of targets of that type destroyed   *)
(* by projectile hits, so a level that is LEVEL_CLEARED has seen at least *)
(* the initial to_destroy submarines destroyed.                           *)
C6_KillQuota ==
  InLevel =>
    /\ \A t \in DOMAIN kills :
         state.object_settings[t].to_destroy - Pools(state)[t].to_destroy
           <= kills[t]
    /\ status = LEVEL_CLEARED =>
         kills["submarine"] >= state.object_settings["submarine"].to_destroy

---------------------------------------------------------------------------
(* C7: at the end of an update_state call made in status RUNNING, if the  *)
(* submarines' remaining budget plus the active submarines in the pool is *)
(* zero the status is LEVEL_CLEARED when to_destroy is 0 and LEVEL_FAILED *)
(* when it is positive; otherwise the status is still RUNNING.            *)
ActiveCount(st, t) ==
  Cardinality({i \in 1..Len(Pools(st)[t].list) : Pools(st)[t].list[i].active})

C7_Step ==
  RunningUpdate =>
    LET sub == Pools(state')["submarine"]
    IN  IF sub.remaining + ActiveCount(state', "submarine") = 0
        THEN status' = IF sub.to_destroy = 0 THEN LEVEL_CLEARED
                       ELSE LEVEL_FAILED
        ELSE status' = RUNNING

C7_LevelEnd == [][C7_Step]_vars

(* the level has just been cleared: the last submarine is gone and the   *)
(* quota is met                                                           *)
C7_Witness ==
  /\ pc = "loop" /\ status = LEVEL_CLEARED
  /\ display.final_display_frames = level_display_frames

---------------------------------------------------------------------------
(* C8: initial_state(end_state, repeat) carries the score over; with      *)
(* repeat it returns end_state's lives minus 1 and the same level_number, *)
(* without repeat the level_number plus 1 and the same lives.             *)
C8_InitialState ==
  (pc = "construct" /\ prev.called /\ prev.old # EmptyDict) =>
    /\ state.score = prev.old.score
    /\ IF prev.repeat
       THEN /\ state.lives = prev.old.lives - 1
            /\ state.level_number = prev.old.level_number
       ELSE /\ state.lives = prev.old.lives
            /\ state.level_number = prev.old.level_number + 1

(* a failed level is repeated with a score earned before *)
C8_Witness ==
  /\ pc = "construct" /\ prev.called /\ prev.repeat
  /\ prev.old # EmptyDict /\ prev.old.score > 0

---------------------------------------------------------------------------
(* C9 as stated: initial_state returns empty objects and spawnables only  *)
(* when the previous state carries no entities, and otherwise returns the *)
(* previous objects map and spawnables set.                               *)
C9_ReusesObjects ==
  (pc = "construct" /\ prev.called) =>
    IF DOMAIN Pools(prev.old) = {}
    THEN state.objects = EmptyDict /\ state.spawnables = {}
    ELSE /\ state.objects = prev.old.objects
         /\ state.spawnables = prev.old.spawnables

(* C9: initial_state returns an empty objects map and an empty spawnables *)
(* set whatever the previous state carries, and the level constructed     *)
(* from its result starts with full budgets and empty target and          *)
(* projectile pools.                                                      *)
C9_FreshObjects ==
  /\ (pc = "construct" /\ prev.called) =>
        state.objects = EmptyDict /\ state.spawnables = {}
  /\ (pc = "execute" /\ prev.called) =>
        \A t \in Limited(state) :
           /\ Pools(state)[t].remaining = state.object_settings[t].total_count
           /\ Pools(state)[t].list = << >>

(* the next level has been constructed from the end state of a level that *)
(* had used up its submarines                                             *)
C9_Witness ==
  /\ pc = "execute" /\ prev.called
  /\ DOMAIN Pools(prev.old) # {}
  /\ Pools(prev.old)["submarine"].remaining = 0

---------------------------------------------------------------------------
(* C10: after execute has returned, LEVEL_CLEARED starts a level from     *)
(* initial_state(state, repeat false), LEVEL_FAILED with lives > 1 starts *)
(* one from initial_state(state, repeat true), and every other outcome    *)
(* ends the play without a further level.                                 *)
C10_Step ==
  /\ pc = "returned" =>
        IF result = LEVEL_CLEARED
        THEN /\ pc' = "construct"
             /\ prev' = [called |-> TRUE, old |-> get_state(state),
                          repeat |-> FALSE]
        ELSE IF result = LEVEL_FAILED /\ state.lives > 1
        THEN /\ pc' = "construct"
             /\ prev' = [called |-> TRUE, old |-> get_state(state),
                          repeat |-> TRUE]
        ELSE pc' = "played" /\ ~prev'.called
  /\ pc = "played" => pc' \in {"menu", "done"}
  /\ pc' = "construct" => pc \in {"menu", "returned"}

C10_PlayLoop == [][C10_Step]_vars

(* the play has ended with a failed level on the last life *)
C10_Witness == pc = "played" /\ result = LEVEL_FAILED

---------------------------------------------------------------------------
(* C11: the number of lives is at least 1 in every level state, whether    *)
(* the level follows a cleared level, repeats a failed one, is written to  *)
(* the save file or is resumed from it; the number changes only when a     *)
(* failed level is repeated, and then by exactly -1.                       *)
HasLives(st) == "lives" \in DOMAIN st

C11_Inv ==
  /\ HasLives(state) => state.lives >= 1
  /\ saved.present => saved.game.lives >= 1

C11_Step ==
  (HasLives(state) /\ HasLives(state') /\ state'.lives # state.lives)
    => /\ state'.lives = state.lives - 1
       /\ pc = "returned"
       /\ result = LEVEL_FAILED
       /\ pc' = "construct"
       /\ state'.level_number = state.level_number

C11_Resume ==
  (pc = "menu" /\ pc' = "construct" /\ saved.present /\ state' = saved.game)
    => state'.lives >= 1

C11_Lives == []C11_Inv /\ [][C11_Step /\ C11_Resume]_vars

(* a level resumed from the save file after a failed level was repeated *)
C11_Witness ==
  /\ pc = "construct"
  /\ ~prev.called
  /\ state.lives = lives - 1
  /\ DOMAIN state.objects # {}

---------------------------------------------------------------------------
(* C12: while the status is PAUSED, update_state and the drop-bomb key     *)
(* change nothing: the pools with the positions of their objects, the      *)
(* budgets, the quotas, the score, the displayed score and the countdown   *)
(* of the final display all stay as they are, and so does the status.      *)
C12_Inv ==
  (InExecute /\ status = PAUSED)
    => /\ \A draws \in SpawnChoices(state) :
            LET r == update_state(status, state, display, draws, 1)
            IN  /\ r.state = state
                /\ r.display = display
                /\ r.status = PAUSED
                /\ r.log = << >>
       /\ LET r == handle_event(status, state, display, "K_DOWN")
          IN  /\ r.state = state
              /\ r.display = display
              /\ r.status = PAUSED

(* the call of update_state that ends a frame spent in PAUSED *)
C12_Step ==
  (pc = "events" /\ pending = 0 /\ status = PAUSED)
    => /\ state' = state
       /\ display' = display
       /\ status' = PAUSED
       /\ kills' = kills

C12_Paused == []C12_Inv /\ [][C12_Step]_vars

(* update_state has returned in a paused level that has a moving          *)
(* submarine and a bomb that could be dropped                              *)
C12_Witness ==
  /\ pc = "loop"
  /\ status = PAUSED
  /\ Len(state.objects["submarine"].list) > 0
  /\ get_available_bombs(state) > 0

---------------------------------------------------------------------------
(* C13: the pause action switches the status of a level from RUNNING to    *)
(* PAUSED and from PAUSED back to RUNNING; PAUSED is a running status, so  *)
(* execute keeps iterating (drawing and dispatching events) while paused;  *)
(* two pause actions starting from RUNNING, in one frame or with the       *)
(* update_state of a paused frame between them, restore RUNNING with the   *)
(* level state and the display data unchanged.                             *)
C13_Inv ==
  /\ PAUSED \in running_statuses
  /\ (InExecute /\ status = RUNNING)
       => LET r1 == handle_event(status, state, display, "K_p")
              r2 == handle_event(r1.status, r1.state, r1.display, "K_p")
          IN  /\ r1.status = PAUSED /\ r1.ret
              /\ r1.state = state /\ r1.display = display
              /\ r2.status = RUNNING /\ r2.ret
              /\ r2.state = state /\ r2.display = display
              /\ \A draws \in SpawnChoices(state) :
                   LET u == update_state(r1.status, r1.state, r1.display,
                                         draws, 1)
                       r3 == handle_event(u.status, u.state, u.display, "K_p")
                   IN  /\ r3.status = RUNNING
                       /\ r3.state = state /\ r3.display = display
  /\ (InExecute /\ status = PAUSED)
       => LET r == handle_event(status, state, display, "K_p")
          IN  r.status = RUNNING /\ r.state = state /\ r.display = display

(* the loop test in a paused level enters the next iteration, whose events *)
(* are dispatched                                                          *)
C13_Step ==
  /\ (pc = "loop" /\ status = PAUSED) => pc' = "draw"
  /\ (pc = "events" /\ pending > 0 /\ status = PAUSED)
       => (pending' = pending - 1 /\ status' \in Status \ {INITIALIZED})

C13_Pause == []C13_Inv /\ [][C13_Step]_vars

(* an iteration of execute in a paused level with a submarine at sea *)
C13_Witness ==
  /\ pc = "draw"
  /\ status = PAUSED
  /\ Len(state.objects["submarine"].list) > 0

---------------------------------------------------------------------------
(* C14: in a level that has ended (its status is neither RUNNING nor       *)
(* PAUSED) every update_state call and every drop-bomb event leaves the    *)
(* moving objects with their positions, the pool memberships, the spawn    *)
(* budgets, the kill quotas and the score unchanged; only the animations,  *)
(* the displayed score and the countdown of the final display advance.     *)
Ended(s) == s \in Status \ {INITIALIZED, RUNNING, PAUSED}

(* st2 differs from st1 at most in the pools of the animation types *)
SameButAnimations(st1, st2) ==
  /\ DOMAIN st2 = DOMAIN st1
  /\ DOMAIN st2.objects = DOMAIN st1.objects
  /\ \A k \in DOMAIN st1 \ {"objects"} : st2[k] = st1[k]
  /\ \A t \in DOMAIN st1.objects \ DOMAIN animations :
       st2.objects[t] = st1.objects[t]

(* d2 is d1 after one step of the displayed score and of the countdown *)
DisplayAdvanced(d1, d2, score) ==
  /\ d2.score_frames = d1.score_frames
  /\ [d2 EXCEPT !.final_display_frames = d1.final_display_frames]
       = update_displayed_score(d1, score)
  /\ d2.final_display_frames =
       IF d1.final_display_frames > 0 THEN d1.final_display_frames - 1 ELSE 0

C14_Inv ==
  (InExecute /\ Ended(status))
    => /\ \A draws \in SpawnChoices(state) :
            LET u == update_state(status, state, display, draws, 1)
            IN  /\ u.status = status
                /\ u.log = << >>
                /\ SameButAnimations(state, u.state)
                /\ DisplayAdvanced(display, u.display, state.score)
       /\ LET r == handle_event(status, state, display, "K_DOWN")
          IN  r.state = state /\ r.display = display /\ r.status = status

(* the call of update_state that ends a frame of a level that has ended *)
C14_Step ==
  (pc = "events" /\ pending = 0 /\ Ended(status))
    => /\ status' = status
       /\ kills' = kills
       /\ SameButAnimations(state, state')
       /\ DisplayAdvanced(display, display', state.score)

C14_Ended == []C14_Inv /\ [][C14_Step]_vars

(* update_state has run in a failed level in which a bomb is still in the *)
(* water                                                                  *)
C14_Witness ==
  /\ pc = "loop"
  /\ status = LEVEL_FAILED
  /\ display.final_display_frames < level_display_frames
  /\ Len(state.objects["bomb"].list) > 0

---------------------------------------------------------------------------
(* C15: after update_state has set LEVEL_CLEARED or LEVEL_FAILED, and with *)
(* no further input, execute performs exactly level_display_frames more    *)
(* iterations before ready_to_quit() holds and it returns that status;     *)
(* after the quit-to-menu key or the save key in a running level the       *)
(* countdown is zero, ready_to_quit() holds at once and execute returns    *)
(* QUIT respectively LEVEL_SAVE at the end of that same iteration.         *)

(* the iterations GameDisplay.execute still performs in a level that has   *)
(* ended when no event arrives any more                                    *)
RECURSIVE final_iterations(_, _, _)
final_iterations(s, st, d) ==
  IF Ended(s) /\ ~ready_to_quit(d)
  THEN LET u == update_state(s, st, d, CHOOSE c \in SpawnChoices(st) : TRUE, 1)
       IN  1 + final_iterations(u.status, u.state, u.display)
  ELSE 0

(* the status execute returns from a level that has ended when no event    *)
(* arrives any more                                                        *)
RECURSIVE final_status(_, _, _)
final_status(s, st, d) ==
  IF Ended(s) /\ ~ready_to_quit(d)
  THEN LET u == update_state(s, st, d, CHOOSE c \in SpawnChoices(st) : TRUE, 1)
       IN  final_status(u.status, u.state, u.display)
  ELSE s

C15_Step ==
  (pc = "events" /\ pending = 0 /\ status = RUNNING
     /\ status' \in {LEVEL_CLEARED, LEVEL_FAILED})
    => /\ final_iterations(status', state', display') = level_display_frames
       /\ final_status(status', state', display') = status'

C15_Keys ==
  (pc = "events" /\ pending > 0 /\ is_running(status))
    => \A key \in {"K_q", "K_s"} :
         LET r == handle_event(status, state, display, key)
         IN  /\ r.status = IF key = "K_q" THEN QUIT ELSE LEVEL_SAVE
             /\ r.display.final_display_frames = 0
             /\ ready_to_quit(r.display)
             /\ \A draws \in SpawnChoices(r.state) :
                  LET u == update_state(r.status, r.state, r.display, draws, 1)
                  IN  /\ u.status = r.status
                      /\ ~is_running(u.status)
                      /\ ready_to_quit(u.display)

C15_FinalDisplay == []C15_Keys /\ [][C15_Step]_vars

---------------------------------------------------------------------------
(* C16: a quit-application event always terminates the game: once the     *)
(* level has handled one during execute, execute returns TERMINATE and     *)
(* terminated() holds, whatever other events arrive in the same frame or   *)
(* in later frames, and Game.run then leaves its loop.                     *)
terminated(s) == s = TERMINATE

C16_Inv ==
  /\ (pc = "returned" /\ quit_seen) => (result = TERMINATE /\ terminated(status))
  /\ (pc = "played" /\ quit_seen) => result = TERMINATE

C16_Step ==
  (pc = "played" /\ quit_seen) => pc' = "done"

C16_QuitTerminates == []C16_Inv /\ [][C16_Step]_vars

---------------------------------------------------------------------------
(* The methods of GameDisplay called directly on one screen                *)
(*                                                                         *)
(* A screen is a GameDisplay itself or a Level, which differ here in their *)
(* running_statuses. ui holds what the bound actions and the mouse         *)
(* handling leave behind: the number of calls of each bound action, the    *)
(* visibility of the mouse pointer and whether the timer that hides it is  *)
(* set. The variables are used as follows: status is the status of the     *)
(* screen, state its kind and ui, result the outcome of the last call and  *)
(* prev the call with the status and ui it found.                          *)

MaxCalls == 2

Kinds == {"GameDisplay", "Level"}

GameDisplay_running_statuses == {RUNNING}

screen_running_statuses(kind) ==
  IF kind = "Level" THEN running_statuses ELSE GameDisplay_running_statuses

screen_is_running_unless_quit(kind, s) == s \notin {TERMINATE, QUIT}

(* GameDisplay.is_running on a screen of the given kind *)
screen_is_running(kind, s) == s \in screen_running_statuses(kind)

(* the key bindings of GameDisplay.__init__ *)
GameDisplay_key_bindings == {"K_f", "K_HASH"}

EVENT_HIDE_MOUSE == 1

NoKey == "none"

ScreenEvents ==
  {[type |-> "QUIT", key |-> NoKey, event |-> 0]}
    \cup {[type |-> "KEYDOWN", key |-> k, event |-> 0] :
            k \in {"K_f", "K_HASH", "K_x"}}
    \cup {[type |-> "MOUSEMOTION", key |-> NoKey, event |-> 0]}
    \cup {[type |-> "USEREVENT", key |-> NoKey, event |-> e] :
            e \in {EVENT_HIDE_MOUSE, EVENT_HIDE_MOUSE + 1}}
    \cup {[type |-> "KEYUP", key |-> "K_f", event |-> 0]}

NoUi == [calls |-> [k \in GameDisplay_key_bindings |-> 0],
         mouse_visible |-> TRUE, timer |-> FALSE]

GameDisplay_handle_event_first_binding(s, ui, event) ==
  IF event.type = "QUIT"
  THEN [status |-> TERMINATE, ui |-> ui, ret |-> TRUE]
  ELSE IF event.type = "KEYDOWN" /\ event.key \in GameDisplay_key_bindings
  THEN [status |-> s, ui |-> [ui EXCEPT !.calls["K_f"] = @ + 1], ret |-> TRUE]
  ELSE IF event.type = "MOUSEMOTION"
  THEN [status |-> s,
        ui |-> [ui EXCEPT !.mouse_visible = TRUE, !.timer = TRUE],
        ret |-> TRUE]
  ELSE IF event.type = "USEREVENT" /\ event.event = EVENT_HIDE_MOUSE
  THEN [status |-> s, ui |-> [ui EXCEPT !.mouse_visible = FALSE], ret |-> TRUE]
  ELSE [status |-> s, ui |-> ui, ret |-> FALSE]

(* GameDisplay.handle_event with the key bindings of GameDisplay *)
GameDisplay_handle_event(s, ui, event) ==
  IF event.type = "QUIT"
  THEN [status |-> TERMINATE, ui |-> ui, ret |-> TRUE]
  ELSE IF event.type = "KEYDOWN" /\ event.key \in GameDisplay_key_bindings
  THEN [status |-> s, ui |-> [ui EXCEPT !.calls[event.key] = @ + 1],
        ret |-> TRUE]
  ELSE IF event.type = "MOUSEMOTION"
  THEN [status |-> s,
        ui |-> [ui EXCEPT !.mouse_visible = TRUE, !.timer = TRUE],
        ret |-> TRUE]
  ELSE IF event.type = "USEREVENT" /\ event.event = EVENT_HIDE_MOUSE
  THEN [status |-> s, ui |-> [ui EXCEPT !.mouse_visible = FALSE], ret |-> TRUE]
  ELSE [status |-> s, ui |-> ui, ret |-> FALSE]

(* the values passed to quit: Status objects, no argument, and values that *)
(* are no Status objects                                                   *)
NoArgument == "no argument"

NonStatus == {"None", "a string"}

QuitValues == Status \cup {NoArgument} \cup NonStatus

NoError == "returned"

quit_unchecked(s, value) ==
  [status |-> IF value = NoArgument THEN QUIT ELSE value, raised |-> NoError]

(* GameDisplay.quit *)
quit(s, value) ==
  LET given == IF value = NoArgument THEN QUIT ELSE value
  IN  IF given \in Status
      THEN [status |-> given, raised |-> NoError]
      ELSE [status |-> s, raised |-> "AssertionError"]

(* GameDisplay.draw *)
GameDisplay_draw(s) == [status |-> s, raised |-> "NotImplementedError"]

GameDisplay_update_state_abstract(s) ==
  [status |-> s, raised |-> "NotImplementedError"]

(* GameDisplay.update_state *)
GameDisplay_update_state(s) == [status |-> s, raised |-> NoError]

NoCall == [op |-> "none", arg |-> NoKey, status |-> INITIALIZED, ui |-> NoUi]

NoOutcome == [ret |-> NoKey, raised |-> NoError]

ScreenInit ==
  /\ pc = "screen"
  /\ status = INITIALIZED
  /\ state \in {[kind |-> k, ui |-> NoUi] : k \in Kinds}
  /\ result = NoOutcome
  /\ prev = NoCall
  /\ display = NoDisplay
  /\ pending = 0
  /\ kills = NoKills
  /\ saved = NoSave
  /\ quit_seen = FALSE

Called(op, arg) == [op |-> op, arg |-> arg, status |-> status, ui |-> state.ui]

(* is_running() *)
ScreenIsRunning ==
  /\ result' = [ret |-> screen_is_running(state.kind, status),
                raised |-> NoError]
  /\ prev' = Called("is_running", NoKey)
  /\ UNCHANGED <<pc, status, state, display, pending, kills, saved, quit_seen>>

(* handle_event(event) *)
ScreenHandleEvent ==
  /\ \E event \in ScreenEvents :
       /\ event.key \in GameDisplay_key_bindings
            => state.ui.calls[event.key] < MaxCalls
       /\ LET r == GameDisplay_handle_event(status, state.ui, event)
          IN  /\ status' = r.status
              /\ state' = [state EXCEPT !.ui = r.ui]
              /\ result' = [ret |-> r.ret, raised |-> NoError]
       /\ prev' = Called("handle_event", event)
  /\ UNCHANGED <<pc, display, pending, kills, saved, quit_seen>>

(* quit(), quit(status) *)
ScreenQuit ==
  /\ \E value \in QuitValues :
       /\ LET r == quit(status, value)
          IN  /\ status' = r.status
              /\ result' = [ret |-> NoKey, raised |-> r.raised]
       /\ prev' = Called("quit", value)
  /\ UNCHANGED <<pc, state, display, pending, kills, saved, quit_seen>>

(* draw() on a GameDisplay that is not of a derived class *)
ScreenDraw ==
  /\ state.kind = "GameDisplay"
  /\ LET r == GameDisplay_draw(status)
     IN  /\ status' = r.status
         /\ result' = [ret |-> NoKey, raised |-> r.raised]
  /\ prev' = Called("draw", NoKey)
  /\ UNCHANGED <<pc, state, display, pending, kills, saved, quit_seen>>

(* update_state() on a GameDisplay that is not of a derived class *)
ScreenUpdateState ==
  /\ state.kind = "GameDisplay"
  /\ LET r == GameDisplay_update_state(status)
     IN  /\ status' = r.status
         /\ result' = [ret |-> NoKey, raised |-> r.raised]
  /\ prev' = Called("update_state", NoKey)
  /\ UNCHANGED <<pc, state, display, pending, kills, saved, quit_seen>>

ScreenNext ==
  \/ ScreenIsRunning
  \/ ScreenHandleEvent
  \/ ScreenQuit
  \/ ScreenDraw
  \/ ScreenUpdateState

ScreenSpec == ScreenInit /\ [][ScreenNext]_vars

---------------------------------------------------------------------------
(* C17: is_running() is true exactly when the status is a member of the    *)
(* running_statuses of the screen: false for a newly constructed screen    *)
(* (INITIALIZED), true for RUNNING, and for PAUSED in a Level, false for   *)
(* TERMINATE, QUIT and the statuses that end a level; the call changes     *)
(* nothing.                                                                *)
ExpectedRunning(kind) ==
  IF kind = "Level" THEN {RUNNING, PAUSED} ELSE {RUNNING}

C17_IsRunning ==
  /\ \A s \in Status : is_running(s) <=> s \in {RUNNING, PAUSED}
  /\ \A kind \in Kinds : \A s \in Status :
       screen_is_running(kind, s) <=> s \in ExpectedRunning(kind)
  /\ prev.op = "is_running"
       => /\ result.ret = (prev.status \in ExpectedRunning(state.kind))
          /\ result.raised = NoError
          /\ status = prev.status
          /\ state.ui = prev.ui
  /\ (prev.op = "none" /\ pc = "screen")
       => ~screen_is_running(state.kind, status)

(* is_running() has returned true on a paused Level *)
C17_Witness ==
  /\ pc = "screen"
  /\ prev.op = "is_running"
  /\ state.kind = "Level"
  /\ status = PAUSED
  /\ result.ret = TRUE

---------------------------------------------------------------------------
(* C18: handle_event of the base class: a quit-application event sets the  *)
(* status to TERMINATE and returns true; a key-down whose key is in the    *)
(* key_bindings of the screen calls the action bound to that key exactly   *)
(* once, calls no other action and returns true; a key-down with an        *)
(* unbound key returns false and changes neither the status nor anything   *)
(* else.                                                                   *)
C18_HandleEvent ==
  prev.op = "handle_event"
    => LET e == prev.arg
       IN  /\ result.raised = NoError
           /\ e.type = "QUIT"
                => /\ status = TERMINATE
                   /\ result.ret = TRUE
                   /\ state.ui = prev.ui
           /\ (e.type = "KEYDOWN" /\ e.key \in {"K_f", "K_HASH"})
                => /\ result.ret = TRUE
                   /\ state.ui.calls[e.key] = prev.ui.calls[e.key] + 1
                   /\ \A k \in {"K_f", "K_HASH"} \ {e.key} :
                        state.ui.calls[k] = prev.ui.calls[k]
                   /\ status = prev.status
                   /\ state.ui.mouse_visible = prev.ui.mouse_visible
                   /\ state.ui.timer = prev.ui.timer
           /\ (e.type = "KEYDOWN" /\ e.key \notin {"K_f", "K_HASH"})
                => /\ result.ret = FALSE
                   /\ status = prev.status
                   /\ state.ui = prev.ui

(* the action bound to K_HASH has been called by a key-down after the      *)
(* action bound to K_f had been called before                              *)
C18_Witness ==
  /\ pc = "screen"
  /\ prev.op = "handle_event"
  /\ prev.arg.type = "KEYDOWN"
  /\ prev.arg.key = "K_HASH"
  /\ prev.ui.calls["K_f"] = 1
  /\ state.ui.calls["K_HASH"] = 1
  /\ result.ret = TRUE

---------------------------------------------------------------------------
(* C19: quit(status) sets the status of the screen to the given value, and *)
(* to QUIT when no argument is given; a value that is not a Status fails   *)
(* the assertion and leaves the status unchanged.                          *)
C19_Quit ==
  prev.op = "quit"
    => /\ state.ui = prev.ui
       /\ prev.arg \in {INITIALIZED, RUNNING, TERMINATE, QUIT, PAUSED,
                         LEVEL_CLEARED, LEVEL_FAILED, LEVEL_SAVE}
            => (status = prev.arg /\ result.raised = NoError)
       /\ prev.arg = NoArgument
            => (status = QUIT /\ result.raised = NoError)
       /\ prev.arg \in {"None", "a string"}
            => (status = prev.status /\ result.raised = "AssertionError")

(* quit has been called with a value that is no Status on a screen whose   *)
(* status an earlier quit had set to LEVEL_SAVE                            *)
C19_Witness ==
  /\ pc = "screen"
  /\ prev.op = "quit"
  /\ prev.arg = "a string"
  /\ prev.status = LEVEL_SAVE
  /\ status = LEVEL_SAVE
  /\ result.raised = "AssertionError"

---------------------------------------------------------------------------
(* C20: draw() and update_state() called on a GameDisplay that is not of a *)
(* derived class each raise NotImplementedError instead of returning.      *)
C20_BothRaise ==
  prev.op \in {"draw", "update_state"}
    => result.raised = "NotImplementedError"

(* C20, as the code has it: draw() on a GameDisplay that is not of a       *)
(* derived class raises NotImplementedError; update_state() returns        *)
(* normally and does nothing; neither changes the status.                  *)
C20_DrawRaises ==
  /\ prev.op = "draw"
       => /\ result.raised = "NotImplementedError"
          /\ status = prev.status
          /\ state.ui = prev.ui
  /\ prev.op = "update_state"
       => /\ result.raised = NoError
          /\ status = prev.status
          /\ state.ui = prev.ui

(* update_state() has returned on a running GameDisplay *)
C20_Witness ==
  /\ pc = "screen"
  /\ state.kind = "GameDisplay"
  /\ prev.op = "update_state"
  /\ status = RUNNING
  /\ result.raised = NoError

---------------------------------------------------------------------------
(* C21: a successful bomb drop (status RUNNING, ship x strictly between 0  *)
(* and the screen width, get_available_bombs() > 0) subtracts exactly n*n  *)
(* from the score, n being the number of bombs in the pool before the      *)
(* drop, adds exactly one bomb to the pool and takes exactly one from the  *)
(* bomb budget; two successful drops in one frame cost n*n and             *)
(* (n+1)*(n+1).                                                            *)
CanDrop(st) ==
  /\ st.objects["ship"].list[1].pos[1] > 0
  /\ st.objects["ship"].list[1].pos[1] < width
  /\ get_available_bombs(st) > 0

(* st2 is st1 after one drop charged with cost *)
DroppedOne(st1, st2, cost) ==
  LET b1 == st1.objects["bomb"]
      b2 == st2.objects["bomb"]
  IN  /\ st2.score = st1.score - cost
      /\ Len(b2.list) = Len(b1.list) + 1
      /\ SubSeq(b2.list, 1, Len(b1.list)) = b1.list
      /\ b2.remaining = b1.remaining - 1
      /\ \A t \in DOMAIN st1.objects \ {"bomb", "transients"} :
           st2.objects[t] = st1.objects[t]
      /\ st2.lives = st1.lives /\ st2.level_number = st1.level_number

C21_Inv ==
  (pc = "events" /\ status = RUNNING /\ CanDrop(state))
    => LET n == Len(state.objects["bomb"].list)
           r1 == handle_event(status, state, display, "K_DOWN")
           r2 == handle_event(r1.status, r1.state, r1.display, "K_DOWN")
       IN  /\ r1.status = RUNNING /\ r1.display = display
           /\ DroppedOne(state, r1.state, n * n)
           /\ CanDrop(r1.state)
                => /\ DroppedOne(r1.state, r2.state, (n + 1) * (n + 1))
                   /\ r2.state.score
                        = state.score - n * n - (n + 1) * (n + 1)

C21_Step ==
  BombDropped
    => /\ status = RUNNING /\ CanDrop(state)
       /\ DroppedOne(state, state',
                     Len(state.objects["bomb"].list)
                       * Len(state.objects["bomb"].list))

C21_DropCost == []C21_Inv /\ [][C21_Step]_vars

(* the second drop of a frame has been paid for: two bombs at the ship,    *)
(* none dropped before them                                                *)
C21_Witness ==
  /\ pc = "events" /\ InLevel /\ status = RUNNING
  /\ Len(state.objects["bomb"].list) = 2
  /\ state.objects["bomb"].remaining = objects["bomb"].total_count - 2
  /\ state.objects["bomb"].list[1].pos = state.objects["bomb"].list[2].pos
  /\ state.score >= 0

---------------------------------------------------------------------------
(* C22: a bomb drop requested in status RUNNING while the ship's x is not  *)
(* strictly between 0 and the screen width, or while no bomb is affordable *)
(* (get_available_bombs() <= 0), is refused as a normal transition: no     *)
(* exception is raised and the score, the bomb pool, the bomb budget and   *)
(* the status are unchanged.                                               *)
C22_Refused ==
  (pc = "events" /\ status = RUNNING /\ InLevel)
    => /\ state.score >= 0
       /\ get_available_bombs(state) > 0
            => Len(state.objects["ship"].list) >= 1
       /\ ~CanDrop(state)
            => LET r == handle_event(status, state, display, "K_DOWN")
               IN  /\ r.ret = TRUE
                   /\ r.status = RUNNING
                   /\ r.state = state
                   /\ r.display = display

C22_Step ==
  (pc = "events" /\ pending > 0 /\ status = RUNNING /\ ~CanDrop(state)
     /\ status' = RUNNING)
    => state' = state /\ display' = display

C22_DropRefused == []C22_Refused /\ [][C22_Step]_vars

(* an event is handled while a bomb is affordable and the ship is not      *)
(* inside the screen                                                       *)
C22_Witness ==
  /\ pc = "events" /\ pending = 1 /\ status = RUNNING /\ InLevel
  /\ get_available_bombs(state) > 0
  /\ ~(state.objects["ship"].list[1].pos[1] > 0
        /\ state.objects["ship"].list[1].pos[1] < width)

---------------------------------------------------------------------------
(* C23: between two consecutive states of a level the score decreases only *)
(* through a bomb drop: hit resolution adds a delta >= 0, and every other  *)
(* step (movement, pruning, spawning, pause, level end, the hand-over to   *)
(* the next level) leaves the score unchanged.                             *)
HasScore(st) == "score" \in DOMAIN st

C23_Step ==
  (HasScore(state) /\ HasScore(state'))
    => /\ state'.score < state.score
            => (BombDropped /\ status = RUNNING
                  /\ prev' = prev /\ kills' = kills)
       /\ state'.score > state.score
            => (RunningUpdate
                  /\ \E t \in DOMAIN kills : kills'[t] > kills[t])
       /\ (~BombDropped /\ ~RunningUpdate) => state'.score = state.score

(* the deltas of hit resolution are never negative *)
C23_Inv ==
  (pc = "events" /\ pending = 0 /\ status = RUNNING /\ InLevel)
    => \A draws \in SpawnChoices(state) :
         LET u == update_state(status, state, display, draws, 1)
         IN  /\ u.state.score >= state.score
             /\ \A i \in 1..Len(u.log) : u.log[i].added >= 0

C23_ScoreMonotone == []C23_Inv /\ [][C23_Step]_vars

(* a hit has raised the score in a level in which bombs had been paid for  *)
C23_Witness ==
  /\ pc = "loop" /\ InLevel
  /\ kills["submarine"] = 2
  /\ state.score > 0
  /\ state.objects["bomb"].remaining = 0

---------------------------------------------------------------------------
(* C24: in the spawn step of update_state a spawnable type receives a new  *)
(* entity only if its pool size is below max_count and, when the type has  *)
(* a lifetime budget, below remaining; a spawn adds exactly one entity to  *)
(* the pool and takes exactly one from remaining; at most one entity per   *)
(* type is spawned in one update_state call, and the types that are not    *)
(* spawnable receive none.                                                 *)

(* the level state on which the spawn step of update_state works *)
BeforeSpawn(st) == prune(handle_hits(update_all(st, DOMAIN st.objects, 1)).st)

SpawnedRight(before, after, t) ==
  LET b == before.objects[t]
      a == after.objects[t]
      limited == "remaining" \in DOMAIN b
  IN  \/ a = b
      \/ /\ t \in before.spawnables
         /\ Len(b.list) < b.max_count
         /\ limited => Len(b.list) < b.remaining
         /\ Len(a.list) = Len(b.list) + 1
         /\ SubSeq(a.list, 1, Len(b.list)) = b.list
         /\ a.list[Len(a.list)].active
         /\ limited => a.remaining = b.remaining - 1
         /\ \A k \in DOMAIN b \ {"list", "remaining"} : a[k] = b[k]
         /\ DOMAIN a = DOMAIN b

C24_Spawn ==
  (pc = "events" /\ pending = 0 /\ status = RUNNING /\ InLevel)
    => LET before == BeforeSpawn(state)
       IN  \A draws \in SpawnChoices(state) :
             LET after == spawn_objects(before, draws)
             IN  /\ update_state(status, state, display, draws, 1).state = after
                 /\ DOMAIN after.objects = DOMAIN before.objects
                 /\ \A t \in DOMAIN before.objects :
                      SpawnedRight(before, after, t)
                 /\ after.score = before.score
                 /\ after.spawnables = before.spawnables

(* update_state has spawned a submarine from the last unit of its budget  *)
C24_Witness ==
  /\ pc = "loop" /\ InLevel /\ status = RUNNING
  /\ state.objects["submarine"].remaining = 0
  /\ Len(state.objects["submarine"].list) = 1
  /\ state.objects["submarine"].list[1].pos
       = state.objects["submarine"].list[1].start

---------------------------------------------------------------------------
(* The functions of the level and of resources applied to arguments        *)
(*                                                                         *)
(* The initial states draw the arguments of one call; the action of the    *)
(* function applies it. The variables are used as follows: state holds the *)
(* function name and its arguments, result the value returned or the       *)
(* exception raised, and prev tells whether the call has been made.        *)

MaxExisting == 3

MaxCount == 3

(* a level state with the given number of bombs in the pool *)
RECURSIVE BombList(_)
BombList(n) == IF n = 0 THEN << >> ELSE BombList(n - 1) \o << n >>

WithBombs(existing) == [objects |-> [bomb |-> [list |-> BombList(existing)]]]

BombCostArgs ==
  {[fn |-> "get_bomb_cost", existing |-> e, count |-> n] :
     e \in 0..MaxExisting, n \in 0..MaxCount}

(* Python values of the dictionaries given to resources.recursive_update:  *)
(* an integer, None, or a dictionary (a function from its keys to values)  *)
Number(n) == [tag |-> "int", v |-> n]

None == [tag |-> "None", v |-> 0]

Dict(d) == [tag |-> "dict", v |-> d]

DictsOver(keys, values) == UNION {[K -> values] : K \in SUBSET keys}

OuterKeys == {"foo", "bar"}

InnerKeys == {"bar", "baz"}

(* the dictionaries to update: integers and one level of nested dictionaries *)
Dictionaries ==
  DictsOver(OuterKeys,
            {Number(1), Number(3)}
              \cup {Dict(d) :
                      d \in DictsOver(InnerKeys, {Number(1), Number(3)})})

(* the updates: integers, None and one level of nested dictionaries *)
Updates ==
  DictsOver(OuterKeys,
            {Number(2), Number(5), None}
              \cup {Dict(u) :
                      u \in DictsOver(InnerKeys,
                                      {Number(2), Number(5), None})})

(* resources.recursive_update where a dictionary value replaces the old    *)
(* dictionary instead of being merged into it                              *)
RECURSIVE recursive_update_replacing(_, _)
recursive_update_replacing(dictionary, updates) ==
  LET deleted == {key \in DOMAIN dictionary \cap DOMAIN updates :
                    updates[key] = None}
  IN  [key \in DOMAIN dictionary \ deleted |->
         IF key \in DOMAIN updates THEN updates[key] ELSE dictionary[key]]

(* resources.recursive_update(dictionary, updates) on any dictionaries:    *)
(* the dictionary as the call leaves it. Only the keys of updates that are *)
(* in the dictionary are looked at: None deletes, a dictionary over a      *)
(* dictionary recurses, any other value is assigned.                       *)
RECURSIVE recursive_update_dict(_, _)
recursive_update_dict(dictionary, updates) ==
  LET deleted == {key \in DOMAIN dictionary \cap DOMAIN updates :
                    updates[key] = None}
  IN  [key \in DOMAIN dictionary \ deleted |->
         IF key \in DOMAIN updates
         THEN LET value == updates[key]
                  oldvalue == dictionary[key]
              IN  IF value.tag = "dict" /\ oldvalue.tag = "dict"
                  THEN Dict(recursive_update_dict(oldvalue.v, value.v))
                  ELSE value
         ELSE dictionary[key]]

RecursiveUpdateArgs ==
  {[fn |-> "recursive_update", dictionary |-> d, updates |-> u] :
     d \in Dictionaries, u \in Updates}

(* Values of the colour table settings.colours: a string (the name of     *)
(* another colour), an integer, a tuple, a dictionary, or a value of a     *)
(* type get_colour has no branch for, such as a list                       *)
String(name) == [tag |-> "str", v |-> name]

Tuple(args) == [tag |-> "tuple", v |-> args]

List(items) == [tag |-> "list", v |-> items]

(* the names of the table and a colour name pygame knows *)
ColourNames == {"cyclic", "one", "two"}

PygameName == "blue"

ColourValues ==
  {String(name) : name \in ColourNames \cup {PygameName}}
    \cup {Number(0), Tuple(<<0, 0, 255>>), List(<<0, 0, 255>>),
          Dict("grey" :> 0), Dict("cyan" :> 0)}

ColourTables == DictsOver(ColourNames, ColourValues)

(* a pygame.Color made of the arguments, and an exception of get_colour *)
Color(args) == [raised |-> FALSE, value |-> args]

ValueError(message) == [raised |-> TRUE, value |-> message]

(* resources.subset_or_none(dict1, dict2) *)
subset_or_none(dict1, dict2) ==
  LET new_dict == [key \in DOMAIN dict1 \cup DOMAIN dict2 |->
                     IF key \in DOMAIN dict2 THEN dict2[key] ELSE dict1[key]]
  IN  IF DOMAIN new_dict = DOMAIN dict1 THEN new_dict ELSE EmptyDict

colour_options ==
  << [model |-> ("red" :> 0 @@ "green" :> 0 @@ "blue" :> 0),
      function |-> "rgb"],
     [model |-> ("grey" :> 0), function |-> "greyscale"],
     [model |-> ("gray" :> 0), function |-> "grayscale"],
     [model |-> ("hue" :> 0 @@ "saturation" :> 100 @@ "value" :> 100),
      function |-> "hsv"],
     [model |-> ("hue" :> 0 @@ "saturation" :> 100 @@ "lightness" :> 50),
      function |-> "hsl"] >>

(* the loop over colour_options from entry i on: the first model that fits *)
RECURSIVE colour_from_dict(_, _)
colour_from_dict(colour, i) ==
  IF i > Len(colour_options)
  THEN ValueError("invalid colour specification")
  ELSE LET full_colour == subset_or_none(colour_options[i].model, colour)
       IN  IF full_colour # EmptyDict
           THEN Color(<<colour_options[i].function, full_colour>>)
           ELSE colour_from_dict(colour, i + 1)

Continue(name, previous_names) ==
  [outcome |-> "continue", name |-> name, previous_names |-> previous_names]

Finish(value) == [outcome |-> "finish", result |-> value]

(* the body of the while loop of get_colour without the check of           *)
(* previous_names                                                          *)
get_colour_body_unchecked(colours, name, previous_names) ==
  LET colour == colours[name]
  IN  CASE colour.tag = "str" ->
             Continue(colour.v, previous_names \cup {colour.v})
        [] colour.tag = "int" ->
             Finish(Color(<<colour.v, colour.v, colour.v>>))
        [] colour.tag = "tuple" -> Finish(Color(colour.v))
        [] colour.tag = "dict" -> Finish(colour_from_dict(colour.v, 1))
        [] OTHER -> Continue(name, previous_names)

(* the body of the while loop of get_colour, run for a name of the table:  *)
(* it is left by a return or a raise, or ends with the next name to look   *)
(* up; a value that is neither a string, an integer, a tuple nor a         *)
(* dictionary matches no branch and the body ends with nothing changed     *)
get_colour_body(colours, name, previous_names) ==
  LET colour == colours[name]
  IN  CASE colour.tag = "str" ->
             IF colour.v \in previous_names
             THEN Finish(ValueError("recursive colour specification"))
             ELSE Continue(colour.v, previous_names \cup {colour.v})
        [] colour.tag = "int" ->
             Finish(Color(<<colour.v, colour.v, colour.v>>))
        [] colour.tag = "tuple" -> Finish(Color(colour.v))
        [] colour.tag = "dict" -> Finish(colour_from_dict(colour.v, 1))
        [] OTHER -> Continue(name, previous_names)

(* get_colour(name) at the first test of its loop: previous_names is       *)
(* { name }; at tells whether the loop test or the loop body is next       *)
GetColourArgs ==
  {[fn |-> "get_colour", colours |-> c, arg |-> n, name |-> n,
    previous_names |-> {n}, at |-> "while"] :
     c \in ColourTables, n \in ColourNames \cup {PygameName}}

(* The moving objects given to MovingObject.update: an object of each    *)
(* type as Level.__create_moving_object makes it in the first level,      *)
(* placed anywhere on the play field or next to it, active or not         *)
FirstLevel == Level_init(initial_state(EmptyDict, FALSE)).state

MovingTypes == {"ship", "submarine", "bomb"}

NewMovingObject(object_type) ==
  LET data == FirstLevel.object_settings[object_type]
      depth == IF "depth" \in DOMAIN data.constants
               THEN CHOOSE d \in data.constants.depth : TRUE ELSE 0
      speed == CHOOSE v \in data.movement.speed : TRUE
  IN  create_moving_object(FirstLevel, object_type, 1, depth, speed)

PlacesNearField ==
  {<<x, y>> : x \in (0 - 3)..(width + 2), y \in 0..(height + 2)}

MovingObjectArgs ==
  {[fn |-> "MovingObject.update",
    object |-> [NewMovingObject(t) EXCEPT !.pos = p, !.active = a],
    time |-> 1] :
     t \in MovingTypes, p \in PlacesNearField, a \in BOOLEAN}

PureArgs ==
  BombCostArgs \cup RecursiveUpdateArgs \cup GetColourArgs
    \cup MovingObjectArgs

NotApplied == [op |-> "none"]

PureInit ==
  /\ pc = "pure"
  /\ state \in PureArgs
  /\ result = NoResult
  /\ prev = NotApplied
  /\ status = INITIALIZED
  /\ display = NoDisplay
  /\ pending = 0
  /\ kills = NoKills
  /\ saved = NoSave
  /\ quit_seen = FALSE

(* __get_bomb_cost(count) with the given number of bombs in the pool *)
ApplyBombCost ==
  /\ prev = NotApplied
  /\ state.fn = "get_bomb_cost"
  /\ result' = get_bomb_cost(WithBombs(state.existing), state.count)
  /\ prev' = [op |-> state.fn]
  /\ UNCHANGED <<pc, status, state, display, pending, kills, saved, quit_seen>>

(* recursive_update(dictionary, updates); the result is the dictionary     *)
(* after the call, which updates in place and returns nothing              *)
ApplyRecursiveUpdate ==
  /\ prev = NotApplied
  /\ state.fn = "recursive_update"
  /\ result' = recursive_update_dict(state.dictionary, state.updates)
  /\ prev' = [op |-> state.fn]
  /\ UNCHANGED <<pc, status, state, display, pending, kills, saved, quit_seen>>

(* get_colour: the test of its while loop; a name that is not in the      *)
(* table ends the loop and is returned as a pygame.Color                   *)
GetColourWhile ==
  /\ prev = NotApplied
  /\ state.fn = "get_colour"
  /\ state.at = "while"
  /\ IF state.name \in DOMAIN state.colours
     THEN /\ state' = [state EXCEPT !.at = "body"]
          /\ UNCHANGED <<result, prev>>
     ELSE /\ result' = Color(<<state.name>>)
          /\ prev' = [op |-> state.fn]
          /\ UNCHANGED state
  /\ UNCHANGED <<pc, status, display, pending, kills, saved, quit_seen>>

(* get_colour: the body of its while loop, which returns, raises or goes   *)
(* back to the loop test                                                   *)
GetColourBody ==
  /\ prev = NotApplied
  /\ state.fn = "get_colour"
  /\ state.at = "body"
  /\ LET step == get_colour_body(state.colours, state.name,
                                 state.previous_names)
     IN  IF step.outcome = "continue"
         THEN /\ state' = [state EXCEPT !.name = step.name,
                                        !.previous_names = step.previous_names,
                                        !.at = "while"]
              /\ UNCHANGED <<result, prev>>
         ELSE /\ result' = step.result
              /\ prev' = [op |-> state.fn]
              /\ UNCHANGED state
  /\ UNCHANGED <<pc, status, display, pending, kills, saved, quit_seen>>

(* obj.update(time) of a MovingObject; the result is the object after the  *)
(* call                                                                    *)
ApplyMovingObjectUpdate ==
  /\ prev = NotApplied
  /\ state.fn = "MovingObject.update"
  /\ result' = MovingObject_update(state.object, state.time)
  /\ prev' = [op |-> state.fn]
  /\ UNCHANGED <<pc, status, state, display, pending, kills, saved, quit_seen>>

PureNext ==
  \/ ApplyMovingObjectUpdate
  \/ ApplyBombCost
  \/ ApplyRecursiveUpdate
  \/ GetColourWhile
  \/ GetColourBody

PureSpec == PureInit /\ [][PureNext]_vars

(* a call that has been made keeps running: the interpreter goes on with   *)
(* the next iteration of a loop as long as the loop has not been left      *)
(* (every step of a call changes state or prev)                            *)
PureFairSpec == PureSpec /\ WF_<<state, prev>>(PureNext)

---------------------------------------------------------------------------
(* C25 as stated: for all non-negative integers n and existing,            *)
(* bomb_cost(n) is the sum of (existing+i)^2 for i = 0..n-1; it is         *)
(* non-decreasing in existing and strictly increasing in n for every       *)
(* existing >= 0: bomb_cost(n+1) > bomb_cost(n).                           *)
Cost(existing, n) == get_bomb_cost(WithBombs(existing), n)

(* the sum of (existing+i)^2 for i = 0..n-1 in closed form *)
SquareSum(existing, n) ==
  n * existing * existing + existing * n * (n - 1)
    + ((n - 1) * n * (2 * n - 1)) \div 6

C25_StrictlyIncreasing ==
  prev.op = "get_bomb_cost"
    => /\ result = SquareSum(state.existing, state.count)
       /\ Cost(state.existing + 1, state.count) >= result
       /\ Cost(state.existing, state.count + 1) > result

(* C25: for all non-negative integers n and existing, bomb_cost(n) is the  *)
(* sum of (existing+i)^2 for i = 0..n-1; it is non-decreasing in existing  *)
(* and in n, and bomb_cost(n+1) > bomb_cost(n) unless existing = 0 and     *)
(* n = 0, where both are 0: the first bomb into an empty pool is free.     *)
C25_BombCost ==
  prev.op = "get_bomb_cost"
    => /\ result = SquareSum(state.existing, state.count)
       /\ Cost(state.existing + 1, state.count) >= result
       /\ Cost(state.existing, state.count + 1) >= result
       /\ (state.existing > 0 \/ state.count > 0)
            => Cost(state.existing, state.count + 1) > result
       /\ (state.existing = 0 /\ state.count = 0)
            => (result = 0 /\ Cost(state.existing, state.count + 1) = 0)

(* the cost of the first bomb into an empty pool has been computed *)
C25_Witness ==
  /\ pc = "pure"
  /\ prev.op = "get_bomb_cost"
  /\ state.existing = 0
  /\ state.count = 1
  /\ result = 0

---------------------------------------------------------------------------
(* C26: while the displayed score differs from the score and the level is  *)
(* not paused, the displayed score moves exactly one unit toward the score *)
(* every score_frames update_state calls (consecutive display steps are    *)
(* exactly score_frames calls apart), and it never moves away from or past *)
(* the score.                                                              *)

(* the number of calls of __update_displayed_score up to and including the *)
(* next one that moves the displayed score, the score staying as it is     *)
RECURSIVE CallsToStep(_, _)
CallsToStep(d, score) ==
  IF d.score = score THEN 0
  ELSE LET d1 == update_displayed_score(d, score)
       IN  IF d1.score # d.score THEN 1 ELSE 1 + CallsToStep(d1, score)

(* update_state has moved the displayed score *)
DisplayStep ==
  /\ pc = "events" /\ pending = 0 /\ pc' = "loop"
  /\ display'.score # display.score

C26_Step ==
  /\ DisplayStep
       => /\ status # PAUSED
          /\ Abs(display'.score - state.score)
               = Abs(display.score - state.score) - 1
          /\ display'.score # state'.score
               => CallsToStep(display', state'.score) = score_frames
  /\ (pc = "events" /\ pending = 0 /\ status # PAUSED
        /\ display.score # state.score)
       => CallsToStep(display, state.score) <= score_frames

C26_DisplayedScore == [][C26_Step]_vars

---------------------------------------------------------------------------
(* C27: get_state() returns the level state without the pool of transient  *)
(* displays and with everything else as in the live level; a Level         *)
(* constructed from that copy has the same level_number, lives, score,     *)
(* pools, spawn budgets, kill quotas and spawnables, so that               *)
(* get_state(Level(get_state(L))) = get_state(L); the level resumed from   *)
(* the save file is the level that was saved.                              *)
SameButTransients(st1, st2) ==
  /\ DOMAIN st2 = DOMAIN st1
  /\ \A k \in DOMAIN st1 \ {"objects"} : st2[k] = st1[k]
  /\ DOMAIN st2.objects \cup {"transients"} = DOMAIN st1.objects
  /\ \A t \in DOMAIN st1.objects \ {"transients"} :
       /\ t \in DOMAIN st2.objects
       /\ st2.objects[t] = st1.objects[t]

C27_Inv ==
  (InLevel /\ "transients" \in DOMAIN state.objects)
    => LET copy == get_state(state)
           level == Level_init(copy)
       IN  /\ "transients" \notin DOMAIN copy.objects
           /\ SameButTransients(state, copy)
           /\ SameButTransients(level.state, copy)
           /\ level.state.objects["transients"].list = << >>
           /\ get_state(level.state) = copy
           /\ level.display.score = state.score

(* the construction of the level that Game.run resumes from the save file *)
C27_Step ==
  (pc = "construct" /\ ~prev.called /\ pc' = "execute")
    => /\ get_state(state') = state
       /\ SameButTransients(state', state)
       /\ kills' = kills

C27_RoundTrip == []C27_Inv /\ [][C27_Step]_vars

(* a level resumed from the save file with a submarine and a bomb in the   *)
(* water and a budget partly used                                          *)
C27_Witness ==
  /\ pc = "execute" /\ ~prev.called /\ InLevel
  /\ Len(state.objects["submarine"].list) > 0
  /\ Len(state.objects["bomb"].list) > 0
  /\ state.objects["submarine"].remaining
       < state.object_settings["submarine"].total_count
  /\ state.objects["transients"].list = << >>


---------------------------------------------------------------------------
(* what C28 says of one dictionary: for every key of u that is present in  *)
(* d, None removes the key, a dictionary over a dictionary is merged by    *)
(* the same rules, any other value replaces the old one; the keys of d not *)
(* mentioned in u keep their values                                        *)
RECURSIVE UpdatedPresent(_, _, _)
UpdatedPresent(d, u, r) ==
  \A key \in DOMAIN d :
    IF key \in DOMAIN u
    THEN IF u[key] = None
         THEN key \notin DOMAIN r
         ELSE /\ key \in DOMAIN r
              /\ IF u[key].tag = "dict" /\ d[key].tag = "dict"
                 THEN /\ r[key].tag = "dict"
                      /\ UpdatedPresent(d[key].v, u[key].v, r[key].v)
                 ELSE r[key] = u[key]
    ELSE key \in DOMAIN r /\ r[key] = d[key]

(* C28: recursive_update(d, u): for every key of u that is present in d,  *)
(* a None value removes the key from d (also when the old value is a       *)
(* nested dictionary), a dictionary value over a dictionary value is       *)
(* merged recursively, and any other value replaces the old value; keys of *)
(* d not mentioned in u keep their values, and an empty u changes nothing. *)
C28_RecursiveUpdate ==
  prev.op = "recursive_update"
    => /\ UpdatedPresent(state.dictionary, state.updates, result)
       /\ state.updates = EmptyDict => result = state.dictionary

(* a nested dictionary has been merged: one of its keys was removed by     *)
(* None, another one kept its value, and a key of the outer dictionary     *)
(* holding a dictionary was removed by None                                *)
C28_Witness ==
  /\ pc = "pure"
  /\ prev.op = "recursive_update"
  /\ state.dictionary = ("foo" :> Dict("bar" :> Number(1) @@ "baz" :> Number(1))
                           @@ "bar" :> Dict("bar" :> Number(1)))
  /\ state.updates = ("foo" :> Dict("bar" :> None) @@ "bar" :> None)
  /\ result = ("foo" :> Dict("baz" :> Number(1)))


---------------------------------------------------------------------------
(* what C29 says of one dictionary: every key of u that is absent from d   *)
(* is in the result with u's value, in nested dictionaries too             *)
RECURSIVE AddedAbsent(_, _, _)
AddedAbsent(d, u, r) ==
  \A key \in DOMAIN u :
    IF key \notin DOMAIN d
    THEN key \in DOMAIN r /\ r[key] = u[key]
    ELSE (u[key].tag = "dict" /\ d[key].tag = "dict")
           => /\ key \in DOMAIN r
              /\ r[key].tag = "dict"
              /\ AddedAbsent(d[key].v, u[key].v, r[key].v)

(* C29 as stated: recursive_update(d, u) adds every key of u that is       *)
(* absent from d, at any nesting depth, with u's value: updating {foo: 1}  *)
(* with {bar: 2} yields {foo: 1, bar: 2}, and updating {foo: {bar: 3}}     *)
(* with {foo: {baz: 5}} yields {foo: {bar: 3, baz: 5}}.                    *)
C29_AddsAbsentKeys ==
  prev.op = "recursive_update"
    => /\ AddedAbsent(state.dictionary, state.updates, result)
       /\ (/\ state.dictionary = ("foo" :> Number(1))
           /\ state.updates = ("bar" :> Number(2)))
            => result = ("foo" :> Number(1) @@ "bar" :> Number(2))
       /\ (/\ state.dictionary = ("foo" :> Dict("bar" :> Number(3)))
           /\ state.updates = ("foo" :> Dict("baz" :> Number(5))))
            => result = ("foo" :> Dict("bar" :> Number(3)
                                        @@ "baz" :> Number(5)))

(* what the call does with the keys of u that are absent from d: the       *)
(* result has no key that d did not have, at any depth                     *)
RECURSIVE NoKeyAdded(_, _)
NoKeyAdded(d, r) ==
  /\ DOMAIN r \subseteq DOMAIN d
  /\ \A key \in DOMAIN r :
       (r[key].tag = "dict" /\ d[key].tag = "dict")
         => NoKeyAdded(d[key].v, r[key].v)

C29_NothingAdded ==
  prev.op = "recursive_update" => NoKeyAdded(state.dictionary, result)

(* the two examples of C29 leave the dictionary as it was *)
C29_Examples ==
  prev.op = "recursive_update"
    => /\ (/\ state.dictionary = ("foo" :> Number(1))
           /\ state.updates = ("bar" :> Number(2)))
            => result = ("foo" :> Number(1))
       /\ (/\ state.dictionary = ("foo" :> Dict("bar" :> Number(3)))
           /\ state.updates = ("foo" :> Dict("baz" :> Number(5))))
            => result = ("foo" :> Dict("bar" :> Number(3)))


---------------------------------------------------------------------------
(* the name reached from a name by following at most k string entries *)
RECURSIVE Follow(_, _, _)
Follow(colours, name, k) ==
  IF k = 0 \/ name \notin DOMAIN colours
  THEN name
  ELSE IF colours[name].tag = "str"
       THEN Follow(colours, colours[name].v, k - 1)
       ELSE name

IsAlias(colours, name) ==
  name \in DOMAIN colours /\ colours[name].tag = "str"

(* the aliases from the name never end: after as many steps as the table   *)
(* has entries the name reached is still an alias                          *)
Cyclic(colours, name) ==
  IsAlias(colours, Follow(colours, name, Cardinality(DOMAIN colours)))

GetColourCalled == state.fn = "get_colour"

GetColourLeft == prev.op = "get_colour"

C30_Inv ==
  GetColourLeft
    => LET end == Follow(state.colours, state.arg,
                         Cardinality(DOMAIN state.colours))
       IN  IF Cyclic(state.colours, state.arg)
           THEN result = ValueError("recursive colour specification")
           ELSE /\ ~IsAlias(state.colours, state.name)
                /\ state.name = end
                /\ result # ValueError("recursive colour specification")
                /\ end \notin DOMAIN state.colours
                     => result = Color(<<end>>)

(* C30 as stated: get_colour terminates for every colour table: it follows *)
(* string aliases through the table until a non-alias value or a name      *)
(* outside the table is reached, and a direct or indirect alias cycle      *)
(* raises ValueError('recursive colour specification') instead of looping  *)
(* forever.                                                                *)
C30_Terminates == []C30_Inv /\ (GetColourCalled ~> GetColourLeft)

(* the table has no value of a type other than string, integer, tuple and  *)
(* dictionary at the name the aliases lead to                              *)
Handled(colours, name) ==
  LET end == Follow(colours, name, Cardinality(DOMAIN colours))
  IN  end \in DOMAIN colours
        => colours[end].tag \in {"str", "int", "tuple", "dict"}

(* get_colour is left whenever the aliases lead to a value of a type it    *)
(* has a branch for, or out of the table                                   *)
C30_HandledTerminates ==
  (GetColourCalled /\ Handled(state.colours, state.arg)) ~> GetColourLeft

(* the indirect cycle of the tests has raised *)
C30_CycleRaised ==
  /\ GetColourLeft
  /\ state.colours = ("cyclic" :> String("one") @@ "one" :> String("two")
                        @@ "two" :> String("cyclic"))
  /\ state.arg = "cyclic"
  /\ result = ValueError("recursive colour specification")

(* the loop body runs on a list value, which none of its branches matches *)
C30_Stuck ==
  /\ GetColourCalled /\ ~GetColourLeft
  /\ state.at = "body"
  /\ state.name \in DOMAIN state.colours
  /\ state.colours[state.name].tag = "list"

---------------------------------------------------------------------------
(* C31 as stated: terminal statuses are absorbing in a Level: once the     *)
(* status has become TERMINATE, QUIT, LEVEL_SAVE, LEVEL_CLEARED or         *)
(* LEVEL_FAILED, no later event (in the same frame or a later one) and no  *)
(* update_state call puts the status back to RUNNING or PAUSED; in         *)
(* particular the pause key has no effect on a level that has ended.       *)
C31_Step ==
  (pc = "events" /\ Ended(status))
    => status' \notin running_statuses

C31_Absorbing == [][C31_Step]_vars

(* what holds instead: update_state and every event but the pause key      *)
(* leave an ended level ended                                              *)
C31_ButPause ==
  (InExecute /\ Ended(status))
    => /\ \A draws \in SpawnChoices(state) :
            Ended(update_state(status, state, display, draws, 1).status)
       /\ \A event \in Events \ {"K_p"} :
            Ended(handle_event(status, state, display, event).status)
       /\ handle_event(status, state, display, "K_p").status = PAUSED

---------------------------------------------------------------------------
(* C32 as stated: when a quit-application event is handled while a Level   *)
(* is running or paused, ready_to_quit() is true at the next loop check,   *)
(* so execute returns at the end of that same iteration without running    *)
(* any lingering final-display frames.                                     *)
C32_QuitReturns ==
  (pc = "events" /\ pending > 0 /\ is_running(status))
    => LET r == handle_event(status, state, display, "QUIT")
       IN  \A draws \in SpawnChoices(r.state) :
             LET u == update_state(r.status, r.state, r.display, draws, 1)
             IN  /\ ~is_running(u.status)
                 /\ ready_to_quit(u.display)

(* what holds instead: the event sets TERMINATE and leaves the countdown   *)
(* of the final display alone, and with no further event execute performs  *)
(* as many more iterations as the countdown tells, at least one            *)
C32_QuitLingers ==
  (pc = "events" /\ pending > 0 /\ is_running(status))
    => LET r == handle_event(status, state, display, "QUIT")
       IN  /\ r.status = TERMINATE
           /\ r.display = display
           /\ r.state = state
           /\ final_status(r.status, r.state, r.display) = TERMINATE
           /\ final_iterations(r.status, r.state, r.display)
                = display.final_display_frames

---------------------------------------------------------------------------
(* target i of the hit_info entry is active and its bounding box           *)
(* intersects that of some projectile of the entry                         *)
Destroyed(st, info, i) ==
  /\ st.objects[info.target].list[i].active
  /\ \E j \in 1..Len(st.objects[info.projectile].list) :
       colliderect(get_bounding_box(st.objects[info.target].list[i]),
                   get_bounding_box(st.objects[info.projectile].list[j]))

(* the deltas of the first i targets of the entry, each counted once *)
RECURSIVE ScoredOnce(_, _, _)
ScoredOnce(st, info, i) ==
  IF i = 0 THEN 0
  ELSE ScoredOnce(st, info, i - 1)
         + (IF info.score /\ Destroyed(st, info, i)
            THEN Nearest(st.objects[info.target].list[i].pos[2])
            ELSE 0)

RECURSIVE ScoredOnceAll(_, _)
ScoredOnceAll(st, p) ==
  IF p = 0 THEN 0
  ELSE ScoredOnceAll(st, p - 1)
         + ScoredOnce(st, hit_info[p],
                      Len(st.objects[hit_info[p].target].list))

(* C33: a destroyed target is scored exactly once: when several            *)
(* projectiles overlap the same score-eligible target in one frame, the    *)
(* score increases by that target's delta once, and overlaps with an       *)
(* already deactivated target add nothing to the score.                    *)
C33_ScoredOnce ==
  (pc = "events" /\ pending = 0 /\ status = RUNNING /\ InLevel)
    => LET moved == update_all(state, DOMAIN state.objects, 1)
           hits == handle_hits(moved)
       IN  /\ hits.st.score
                = moved.score + ScoredOnceAll(moved, Len(hit_info))
           /\ \A n \in 1..Len(hits.log) :
                ~hits.log[n].tactive => hits.log[n].added = 0
           /\ \A draws \in SpawnChoices(state) :
                update_state(status, state, display, draws, 1).state.score
                  = hits.st.score

(* two bombs have overlapped one submarine in the update_state call just   *)
(* made: two explosions, one kill, one score display                       *)
C33_Witness ==
  /\ pc = "loop" /\ InLevel
  /\ kills["submarine"] = 1
  /\ Len(state.objects["explosion"].list) = 2
  /\ Len(state.objects["transients"].list) = 1
  /\ state.object_settings["submarine"].to_destroy
       - state.objects["submarine"].to_destroy = 2
  /\ state.score > 0

---------------------------------------------------------------------------
(* the pixels of a rectangle, and whether the bounding box of a moving     *)
(* object at a position shares a pixel with its movement region            *)
Pixels(rect) ==
  {<<x, y>> : x \in rect.x..(rect.x + rect.w - 1),
              y \in rect.y..(rect.y + rect.h - 1)}

InRegion(e, pos) ==
  Pixels(areas[e.region]) \cap Pixels(get_bounding_box([e EXCEPT !.pos = pos]))
    # {}

Moved(e, time) ==
  << e.pos[1] + e.velocity[1] * time, e.pos[2] + e.velocity[2] * time >>

(* C34: MovingObject.update: an active object whose bounding box           *)
(* intersected its movement region before the move and no longer           *)
(* intersects it after the move is deactivated when it is not repeating,   *)
(* and is put back at its start position and stays active when it is       *)
(* repeating; an object that has not yet entered its region keeps moving   *)
(* and stays active, and an inactive object neither moves nor becomes      *)
(* active again.                                                           *)
C34_MovingObjectUpdate ==
  prev.op = "MovingObject.update"
    => LET e == state.object
           to == Moved(e, state.time)
           leaves == InRegion(e, e.pos) /\ ~InRegion(e, to)
       IN  /\ (e.active /\ leaves /\ ~e.repeat) => ~result.active
           /\ (e.active /\ leaves /\ e.repeat)
                => (result.active /\ result.pos = e.start)
           /\ (e.active /\ ~leaves) => (result.active /\ result.pos = to)
           /\ ~e.active => result = e
           /\ [result EXCEPT !.pos = e.pos, !.active = e.active] = e

(* a submarine has left the water to the left and been deactivated *)
C34_Witness ==
  /\ pc = "pure"
  /\ prev.op = "MovingObject.update"
  /\ state.object.otype = "submarine"
  /\ state.object.active
  /\ InRegion(state.object, state.object.pos)
  /\ ~InRegion(state.object, Moved(state.object, state.time))
  /\ ~result.active

(* a bomb above the water has moved on and is still active *)
C34_NotYetEntered ==
  /\ pc = "pure"
  /\ prev.op = "MovingObject.update"
  /\ state.object.otype = "bomb"
  /\ state.object.active
  /\ ~InRegion(state.object, state.object.pos)
  /\ result.active
  /\ result.pos = Moved(state.object, state.time)

(* the ship has left the sky to the right and is back at its start *)
C34_Repeating ==
  /\ pc = "pure"
  /\ prev.op = "MovingObject.update"
  /\ state.object.otype = "ship"
  /\ state.object.active
  /\ state.object.pos # state.object.start
  /\ InRegion(state.object, state.object.pos)
  /\ ~InRegion(state.object, Moved(state.object, state.time))
  /\ result.active
  /\ result.pos = state.object.start

---------------------------------------------------------------------------
(* C35: in every reachable level state the ship pool holds exactly one     *)
(* entity and that entity is active: movement only resets the repeating    *)
(* ship to its start position and never deactivates or prunes it, so bomb  *)
(* dropping and bomb creation can always read the ship's position.         *)
C35_OneShip ==
  InLevel
    => /\ "ship" \in DOMAIN state.objects
       /\ Len(state.objects["ship"].list) = 1
       /\ state.objects["ship"].list[1].kind = "moving"
       /\ state.objects["ship"].list[1].otype = "ship"
       /\ state.objects["ship"].list[1].active
       /\ state.objects["ship"].list[1].repeat

(* the ship is back at its start position after a bomb was dropped from    *)
(* the middle of the screen                                                *)
C35_Witness ==
  /\ pc = "loop" /\ InLevel
  /\ Len(state.objects["ship"].list) = 1
  /\ state.objects["ship"].list[1].pos = state.objects["ship"].list[1].start
  /\ Len(state.objects["bomb"].list) > 0

---------------------------------------------------------------------------
(* the object types whose pool has a max_count *)
Capped(st) == {t \in DOMAIN Pools(st) : "max_count" \in DOMAIN Pools(st)[t]}

(* C36: for every object type with a max_count (spawnable types and bombs  *)
(* alike), the number of entities in its pool never exceeds max_count in   *)
(* any reachable level state, whatever the sequence of spawns, bomb drops  *)
(* (including several in one frame) and update steps.                      *)
C36_Pools ==
  InLevel
    => /\ Capped(state) = {"submarine", "whale", "bomb"}
       /\ \A t \in Capped(state) :
            /\ state.objects[t].max_count = state.object_settings[t].max_count
            /\ Len(state.objects[t].list) <= state.objects[t].max_count

(* the level state with k bombs in the pool, a bomb budget and a score *)
RECURSIVE WithPool(_, _)
WithPool(st, k) ==
  IF k = 0 THEN [st EXCEPT !.objects["bomb"].list = << >>]
  ELSE new_bomb_unbudgeted(WithPool(st, k - 1))

Stocked(st, k, budget, score) ==
  [WithPool(st, k) EXCEPT !.objects["bomb"].remaining = budget,
                          !.score = score]

(* a drop key in a running level never fills the bomb pool beyond          *)
(* max_count, whatever the budget and the score are, and is refused when   *)
(* the pool is full                                                        *)
C36_Drop ==
  (pc = "events" /\ pending = 1 /\ status = RUNNING /\ InLevel)
    => LET max_count == state.objects["bomb"].max_count
           total_count == state.object_settings["bomb"].total_count
       IN  \A k \in 0..max_count, budget \in 0..total_count,
              score \in {0, get_bomb_cost(Stocked(state, 0, 0, 0),
                                          max_count + 1)} :
             LET st == Stocked(state, k, budget, score)
                 dropped == handle_event(status, st, display, "K_DOWN").state
             IN  /\ Len(dropped.objects["bomb"].list) <= max_count
                 /\ k = max_count => dropped = st

C36_MaxCount == C36_Pools /\ C36_Drop

(* the whale pool is full while a whale is left in the budget, and the     *)
(* bomb pool has been filled by two drops                                  *)
C36_Witness ==
  /\ pc = "loop" /\ InLevel
  /\ Len(state.objects["whale"].list) = state.objects["whale"].max_count
  /\ state.objects["whale"].remaining > 0
  /\ Len(state.objects["bomb"].list) = state.objects["bomb"].max_count

---------------------------------------------------------------------------
(* the candidate count __get_available_bombs starts its loop with, and the *)
(* candidates down to which the loop can get before the cost is an empty   *)
(* sum                                                                     *)
FirstCandidate(st) ==
  Min(st.objects["bomb"].max_count, st.objects["bomb"].remaining)
    - Len(st.objects["bomb"].list)

Candidates(st) == Min(FirstCandidate(st), 0)..FirstCandidate(st)

Affordable(st) ==
  {n \in Candidates(st) : get_bomb_cost(st, n) <= st.score}

(* C37: get_available_bombs() terminates in every reachable level state:   *)
(* its decrement loop always stops because the score is never negative in  *)
(* a reachable state, so a candidate count with bomb_cost <= score is      *)
(* reached (after at most as many decrements as the first candidate        *)
(* counts).                                                                *)
C37_LoopStops ==
  InLevel
    => /\ state.score >= 0
       /\ Affordable(state) # {}
       /\ \A n \in Affordable(state) : get_available_bombs(state) >= n
       /\ get_available_bombs(state) \in Affordable(state)

(* the loop has counted down from one bomb to none: one bomb is in the     *)
(* water, two more are in the budget and the score is 0                    *)
C37_Witness ==
  /\ pc = "events" /\ InLevel /\ status = RUNNING
  /\ FirstCandidate(state) = 1
  /\ Len(state.objects["bomb"].list) = 1
  /\ state.score = 0
  /\ get_available_bombs(state) = 0

---------------------------------------------------------------------------
(* One level from its construction to the return of execute                *)
(*                                                                         *)
(* The initial states are the levels Game.__play constructs from           *)
(* initial_state for a level number; the steps are those of                *)
(* GameDisplay.execute. The loop keeps running as long as it has not       *)
(* returned.                                                               *)

FreshLevel(level_number) ==
  Level_init(initial_state([level_number |-> level_number - 1], FALSE))

LevelStart ==
  /\ pc = "execute"
  /\ \E level_number \in 1..MaxLevel :
       /\ state = FreshLevel(level_number).state
       /\ display = FreshLevel(level_number).display
  /\ status = INITIALIZED
  /\ pending = 0
  /\ result = NoResult
  /\ kills = NoKills
  /\ prev = NoPrev
  /\ saved = NoSave
  /\ quit_seen = FALSE

LevelNext ==
  \/ ExecuteStart
  \/ LoopTest
  \/ Draw
  \/ Tick
  \/ GetEvents
  \/ HandleEvent
  \/ UpdateState

(* the steps of the loop other than the call of update_state *)
LoopStep ==
  \/ ExecuteStart
  \/ LoopTest
  \/ Draw
  \/ Tick
  \/ GetEvents
  \/ HandleEvent

(* update_state is about to be called *)
AtUpdate == pc = "events" /\ pending = 0

(* the call of update_state returns to the loop test: within LevelNext the *)
(* only step that leaves AtUpdate is UpdateState                           *)
UpdateCalled == AtUpdate /\ pc' = "loop"

LevelSpec ==
  /\ LevelStart
  /\ [][LevelNext]_vars
  /\ WF_vars(LoopStep)
  /\ WF_pc(UpdateCalled)

(* the level is never left paused for ever: update_state keeps being       *)
(* called with a status other than PAUSED until execute returns            *)
NotPausedForever ==
  []<>(pc = "returned" \/ (AtUpdate /\ status # PAUSED))

(* a submarine can be spawned by the call of update_state *)
SubmarineDue ==
  /\ AtUpdate
  /\ status = RUNNING
  /\ state.objects["submarine"].remaining > 0
  /\ Len(state.objects["submarine"].list)
       < state.objects["submarine"].max_count

(* spawn rolls are fair: the submarine budget does not stay at a value     *)
(* while the roll for a submarine is repeated for ever                     *)
SpawnRollsFair ==
  \A k \in 1..objects.submarine.total_count :
    (<>[](state.objects["submarine"].remaining = k)) => <>[]~SubmarineDue

(* C38 as stated: every level eventually ends: if the level is never left  *)
(* paused forever and spawn rolls are fair, the submarines' budget-left    *)
(* plus active count reaches zero, the status becomes LEVEL_CLEARED or     *)
(* LEVEL_FAILED, and execute eventually returns.                           *)
C38_LevelEnds ==
  (NotPausedForever /\ SpawnRollsFair)
    => (pc = "execute" ~> pc = "returned")

(* what holds instead: execute returns when from some time on the level is *)
(* not paused any more                                                     *)
C38_EndsUnpaused ==
  ((<>[](status # PAUSED)) /\ SpawnRollsFair)
    => (pc = "execute" ~> pc = "returned")

(* a level returned as cleared or failed has no submarine left *)
C38_Returned ==
  (pc = "returned" /\ result \in {LEVEL_CLEARED, LEVEL_FAILED})
    => objects_remaining(state, "submarine") = 0

---------------------------------------------------------------------------
(* C39: object settings of a new level                                     *)

(* the global descriptor table with the override registered for the level *)
RegisteredSettings(level_number) ==
  [t \in DOMAIN objects |->
     IF level_number \in DOMAIN level_updates
        /\ t \in DOMAIN level_updates[level_number]
     THEN [k \in DOMAIN objects[t] |->
             IF k = "constants"
             THEN [c \in DOMAIN objects[t].constants |->
                     IF c \in DOMAIN level_updates[level_number][t]
                     THEN level_updates[level_number][t][c]
                     ELSE objects[t].constants[c]]
             ELSE objects[t][k]]
     ELSE objects[t]]

(* C39: the object_settings of the state returned by initial_state depend  *)
(* only on the global descriptor table and the override registered for the *)
(* resulting level_number: the table is used unmodified whatever levels    *)
(* were played before, overrides of previous levels do not carry over, and *)
(* a level_number without an override gets the unmodified table.           *)
C39_ObjectSettings ==
  (pc = "construct" /\ prev.called)
    => /\ state.object_settings = RegisteredSettings(state.level_number)
       /\ state.level_number \notin DOMAIN level_updates
            => state.object_settings = objects

(* a level without override is entered after a level played with one *)
C39_Witness ==
  /\ pc = "construct"
  /\ prev.called
  /\ ~prev.repeat
  /\ get(prev.old, "level_number", 0) \in DOMAIN level_updates
  /\ get(prev.old, "object_settings", objects) # objects
  /\ state.level_number \notin DOMAIN level_updates
  /\ state.object_settings = objects

---------------------------------------------------------------------------
(* C40: Game.run after play and on resume                                  *)

(* the step writes the save file *)
SaveWritten == saved'.present /\ saved' # saved

C40_Step ==
  /\ SaveWritten <=> (pc = "played" /\ result = LEVEL_SAVE)
  /\ SaveWritten => saved'.game = state
  /\ pc = "played" => pc' = (IF result = TERMINATE THEN "done" ELSE "menu")
  /\ pc' = "done" => (pc = "played" /\ result = TERMINATE) \/ pc = "menu"
  /\ (pc = "menu" /\ ~saved.present /\ pc' = "construct")
       => (prev'.called /\ state' = initial_state(EmptyDict, FALSE))

====
